---- MODULE Spec2Model ----
(***************************************************************************)
(* Model of the template placeholder substitution and dynamic-section      *)
(* engine of docx-automatizando-contratos.                                  *)
(*                                                                         *)
(* Text is a sequence of atoms (an atom stands for one character, or for a *)
(* run of characters that no key cuts through), so that Python's           *)
(* `in`, str.replace and str.split are computed on sequences.  A run is a  *)
(* record of its text and its font, a paragraph a sequence of runs, a cell *)
(* a sequence of paragraphs, a table a sequence of rows of cells, and a    *)
(* document body a sequence of blocks (paragraphs and tables).             *)
(*                                                                         *)
(* Five specifications share the variables:                                *)
(*   SpecChart  the chart rasterizers of app/laudo_pptx.py                 *)
(*   SpecPara   substitution over one paragraph / one text frame           *)
(*   Spec       the document fill operations (preencher_*, render_laudo)   *)
(*   SpecServe  one request of app_linux.py, its renderer and download     *)
(*   SpecTwo    two requests served side by side                           *)
(***************************************************************************)
EXTENDS Integers, Sequences, FiniteSets, TLC

VARIABLES
    pc,        \* position inside the operation being run
    op,        \* the operation being run
    doc,       \* the document tree being mutated (body blocks)
    doc0,      \* the template as loaded (never mutated)
    args,      \* the arguments of the call (binding context, record lists)
    loc,       \* the locals of the operation that outlive one step
    result     \* what the call returned or raised

vars == <<pc, op, doc, doc0, args, loc, result>>

(***************************************************************************)
(* Sequences as Python strings and lists                                   *)
(***************************************************************************)
Max(a, b) == IF a >= b THEN a ELSE b

Min(a, b) == IF a <= b THEN a ELSE b

\* s[i:] of Python, 0-based i
Drop(s, i) == SubSeq(s, i + 1, Len(s))

\* s.startswith(p)
StartsWith(s, p) == Len(p) <= Len(s) /\ SubSeq(s, 1, Len(p)) = p

\* p in s
Contains(s, p) == \E i \in 0..(Len(s) - Len(p)) : SubSeq(s, i + 1, i + Len(p)) = p

\* s.replace(p, r) for a non-empty p: every non-overlapping occurrence, left to right
RECURSIVE Replace(_, _, _)
Replace(s, p, r) ==
    IF Len(s) < Len(p) \/ Len(p) = 0 THEN s
    ELSE IF StartsWith(s, p) THEN r \o Replace(Drop(s, Len(p)), p, r)
    ELSE <<s[1]>> \o Replace(Tail(s), p, r)

\* s.split(p) for a non-empty p: the list of the parts between occurrences
RECURSIVE SplitFrom(_, _, _)
SplitFrom(s, p, cur) ==
    IF Len(s) < Len(p) \/ Len(p) = 0 THEN <<cur \o s>>
    ELSE IF StartsWith(s, p) THEN <<cur>> \o SplitFrom(Drop(s, Len(p)), p, <<>>)
    ELSE SplitFrom(Tail(s), p, cur \o <<s[1]>>)

Split(s, p) == SplitFrom(s, p, <<>>)

\* ''.join(parts)
RECURSIVE Join(_)
Join(parts) == IF parts = <<>> THEN <<>> ELSE Head(parts) \o Join(Tail(parts))

\* sep.join(parts)
RECURSIVE JoinSep(_, _)
JoinSep(parts, sep) ==
    IF parts = <<>> THEN <<>>
    ELSE IF Len(parts) = 1 THEN Head(parts)
    ELSE Head(parts) \o sep \o JoinSep(Tail(parts), sep)

\* s.rstrip(): trailing blanks removed
RECURSIVE RStrip(_)
RStrip(s) ==
    IF s = <<>> THEN s
    ELSE IF s[Len(s)] = " " THEN RStrip(SubSeq(s, 1, Len(s) - 1))
    ELSE s

\* s.lstrip()
RECURSIVE LStrip(_)
LStrip(s) ==
    IF s = <<>> THEN s
    ELSE IF s[1] = " " THEN LStrip(Tail(s))
    ELSE s

\* s.strip()
Strip(s) == LStrip(RStrip(s))

\* [f(x) for x in s]
SeqMap(F(_), s) == [i \in 1..Len(s) |-> F(s[i])]

\* the sequences over S of length 0..n
SeqsUpTo(S, n) == UNION {[1..k -> S] : k \in 0..n}

\* s without its element at 1-based index i
RemoveAt(s, i) == SubSeq(s, 1, i - 1) \o SubSeq(s, i + 1, Len(s))

\* s with the elements of t inserted after 1-based index i (0: in front)
InsertAfter(s, i, t) == SubSeq(s, 1, i) \o t \o SubSeq(s, i + 1, Len(s))

(***************************************************************************)
(* Numbers.  A Python float is [k, c]: k is "fin", "nan" or "inf" and c is *)
(* the value in hundredths (the inputs of the model carry at most two      *)
(* decimals, so hundredths are exact).                                      *)
(***************************************************************************)
NaN == [k |-> "nan", c |-> 0]

Inf == [k |-> "inf", c |-> 0]

Fin(c) == [k |-> "fin", c |-> c]

Digits == {"0", "1", "2", "3", "4", "5", "6", "7", "8", "9"}

DigitVal(d) ==
    CASE d = "0" -> 0 [] d = "1" -> 1 [] d = "2" -> 2 [] d = "3" -> 3 [] d = "4" -> 4
      [] d = "5" -> 5 [] d = "6" -> 6 [] d = "7" -> 7 [] d = "8" -> 8 [] d = "9" -> 9

RECURSIVE DigitsVal(_)
DigitsVal(s) == IF s = <<>> THEN 0 ELSE DigitsVal(SubSeq(s, 1, Len(s) - 1)) * 10 + DigitVal(s[Len(s)])

AllDigits(s) == \A i \in 1..Len(s) : s[i] \in Digits

\* the hundredths of a fraction part of at most two digits: "5" -> 50, "05" -> 5
FracHundredths(f) ==
    IF Len(f) = 0 THEN 0
    ELSE IF Len(f) = 1 THEN DigitVal(f[1]) * 10
    ELSE DigitVal(f[1]) * 10 + DigitVal(f[2])

\* float(s) of Python on a string of the model's alphabet: blanks around are
\* dropped, then [-]digits[.digits], "inf" or "nan"; anything else is a ValueError,
\* which both callers turn into NaN
PyFloat(s0) ==
    LET s   == Strip(s0)
        neg == s # <<>> /\ s[1] = "-"
        u   == IF neg THEN Tail(s) ELSE s
        ps  == Split(u, <<".">>)
        ip  == ps[1]
        fp  == IF Len(ps) > 1 THEN ps[2] ELSE <<>>
        mag == DigitsVal(ip) * 100 + FracHundredths(fp)
    IN  IF u = <<"inf">> THEN Inf
        ELSE IF u = <<"nan">> THEN NaN
        ELSE IF Len(ps) <= 2 /\ AllDigits(ip) /\ AllDigits(fp) /\ Len(ip) + Len(fp) > 0
             THEN Fin(IF neg THEN 0 - mag ELSE mag)
        ELSE NaN

\* math.ceil(a / b) * b for b > 0
CeilTo(a, b) == IF a >= 0 THEN ((a + b - 1) \div b) * b ELSE 0 - (((0 - a) \div b) * b)

\* A raw chart input: None, an int/float or a string
RawNone == [t |-> "none", c |-> 0, s |-> <<>>]

RawNum(c) == [t |-> "num", c |-> c, s |-> <<>>]

RawStr(s) == [t |-> "str", c |-> 0, s |-> s]

\* _to_float: None and blank strings are NaN, a decimal comma is accepted
to_float(v) ==
    IF v.t = "none" THEN NaN
    ELSE IF v.t = "str" /\ Strip(v.s) = <<>> THEN NaN
    ELSE IF v.t = "num" THEN Fin(v.c)
    ELSE PyFloat(Replace(v.s, <<",">>, <<".">>))

\* the conversion with None read as zero
coerce_float_NoneIsZero(x) ==
    IF x.t = "none" THEN Fin(0)
    ELSE IF x.t = "num" THEN Fin(x.c)
    ELSE PyFloat(Strip(x.s))

\* _coerce_float: BRL strings, 12.345,67 -> 12345.67 ; 12,34 -> 12.34 ; "1234" -> 1234.0
coerce_float(x) ==
    IF x.t = "none" THEN NaN
    ELSE IF x.t = "num" THEN Fin(x.c)
    ELSE LET s     == Strip(x.s)
             parts == Split(s, <<".">>)
             n     == Len(parts)
             t     == IF Contains(s, <<",">>)
                         THEN Replace(Replace(s, <<".">>, <<>>), <<",">>, <<".">>)
                      ELSE IF n > 2
                         THEN Join(SubSeq(parts, 1, n - 1)) \o <<".">> \o parts[n]
                      ELSE IF n = 2 /\ Len(parts[2]) <= 2
                         THEN JoinSep(parts, <<".">>)
                      ELSE Replace(s, <<".">>, <<>>)
         IN  PyFloat(t)

IsNaN(f) == f.k = "nan"

\* max() of a non-empty list of floats none of which is NaN
FloatMax(vals) ==
    IF \E i \in 1..Len(vals) : vals[i].k = "inf" THEN Inf
    ELSE Fin(CHOOSE m \in {vals[i].c : i \in 1..Len(vals)} :
                \A i \in 1..Len(vals) : vals[i].c <= m)

\* [v for v in vals if not isnan(v)]
RECURSIVE NotNaN(_)
NotNaN(vals) ==
    IF vals = <<>> THEN <<>>
    ELSE IF IsNaN(Head(vals)) THEN NotNaN(Tail(vals))
    ELSE <<Head(vals)>> \o NotNaN(Tail(vals))

(***************************************************************************)
(* Chart rasterizers (app/laudo_pptx.py)                                   *)
(***************************************************************************)
\* bounds of the chart inputs
MaxData == 2

MaxValores == 13

\* the 12 monthly points grafico_area_mensal_png asks for
NumMeses == 12

\* the quarterly y axis: multiples of 20, at least 80 (in hundredths)
TriStep == 2000

TriMin == 8000

\* the monthly y axis: multiples of 5000 (in hundredths)
MensalStep == 500000

NoResult == [status |-> "none", error |-> "", y_max |-> 0, series |-> <<>>]

Raised(msg) == [status |-> "error", error |-> msg, y_max |-> 0, series |-> <<>>]

Png(ymax, series) == [status |-> "png", error |-> "", y_max |-> ymax, series |-> series]

NoLoc == [ys |-> <<>>, y_anun |-> <<>>, y_vend |-> <<>>, y_max |-> 0, to_place |-> <<>>]

\* raw values a quarterly row may carry
RawTri ==
    { RawNone, RawStr(<<>>), RawStr(<<"x">>), RawStr(<<"inf">>),
      RawNum(0), RawNum(7900), RawNum(8000), RawNum(10000),
      RawStr(<<"8", "0", ",", "5">>), RawStr(<<" ", "1", "2", "1">>) }

\* raw values a monthly point may carry
RawMensal ==
    { RawNone, RawStr(<<"x">>), RawNum(0), RawNum(500000), RawNum(500001),
      RawStr(<<"1", "2", ".", "3", "4", "5", ",", "6", "7">>) }

\* ylim as the caller passes it: None, or (y_min, y_max)
YLims == { [given |-> FALSE, lo |-> 0, hi |-> 0],
           [given |-> TRUE, lo |-> 0, hi |-> 5000],
           [given |-> TRUE, lo |-> 0, hi |-> 13000] }

\* a list of n values all equal to base but the one at position k (k = 0: none)
OneOff(n, base, special, k) == [i \in 1..n |-> IF i = k THEN special ELSE base]

TriArgs ==
    { [data |-> [i \in 1..n |-> [anuncios |-> OneOff(n, b, s, k)[i],
                                 vendidos |-> OneOff(n, b, s, j)[i]]],
       ylim |-> y, valores |-> <<>>] :
         n \in 0..MaxData, b \in RawTri, s \in RawTri, k \in 0..MaxData, j \in 0..MaxData,
         y \in YLims }

MensalArgs ==
    { [data |-> <<>>, ylim |-> [given |-> FALSE, lo |-> 0, hi |-> 0],
       valores |-> OneOff(n, b, s, k)] :
         n \in 0..MaxValores, b \in RawMensal, s \in RawMensal, k \in 0..1 }

\* the y maximum rounded down instead of up
TriYmax_Floor(m) == Max(TriMin, (m \div TriStep) * TriStep)

\* laudo_pptx.py:131  ymax = max(80, math.ceil(max(vals) / 20) * 20)
TriYmax(m) == Max(TriMin, CeilTo(m, TriStep))

\* laudo_pptx.py:182  ymax = max(step, math.ceil(max(valid) / step) * step)
MensalYmax(m) == Max(MensalStep, CeilTo(m, MensalStep))

\* the guard accepting any list of at least 12 values
MensalLenOk_AtLeast(valores) == Len(valores) >= NumMeses

\* laudo_pptx.py:171  the guard of grafico_area_mensal_png
MensalLenOk(valores) == Len(valores) = NumMeses

ToFloatOf(v) == to_float(v)

CoerceFloatOf(v) == coerce_float(v)

\* grafico_trimestral_png, lines 123-124: the two series
TrimestralSeries ==
    /\ op = "grafico_trimestral_png" /\ pc = "start"
    /\ loc' = [loc EXCEPT !.y_anun = [i \in 1..Len(args.data) |-> ToFloatOf(args.data[i].anuncios)],
                          !.y_vend = [i \in 1..Len(args.data) |-> ToFloatOf(args.data[i].vendidos)]]
    /\ pc' = "series"
    /\ UNCHANGED <<op, doc, doc0, args, result>>

\* grafico_trimestral_png, lines 127-134: the y scale
TrimestralScale ==
    /\ op = "grafico_trimestral_png" /\ pc = "series"
    /\ LET vals == NotNaN(loc.y_anun \o loc.y_vend)
       IN  IF ~args.ylim.given
           THEN IF vals = <<>>
                THEN /\ result' = Raised("Sem valores numericos.")
                     /\ pc' = "raised"
                     /\ loc' = loc
                ELSE IF FloatMax(vals).k = "inf"
                THEN /\ result' = Raised("OverflowError")
                     /\ pc' = "raised"
                     /\ loc' = loc
                ELSE /\ loc' = [loc EXCEPT !.y_max = TriYmax(FloatMax(vals).c)]
                     /\ pc' = "scaled"
                     /\ result' = result
           ELSE /\ loc' = [loc EXCEPT !.y_max = args.ylim.hi]
                /\ pc' = "scaled"
                /\ result' = result
    /\ UNCHANGED <<op, doc, doc0, args>>

\* grafico_trimestral_png, lines 137-159: axes, the two lines, the PNG bytes
TrimestralDraw ==
    /\ op = "grafico_trimestral_png" /\ pc = "scaled"
    /\ result' = Png(loc.y_max, loc.y_vend \o loc.y_anun)
    /\ pc' = "done"
    /\ UNCHANGED <<op, doc, doc0, args, loc>>

\* grafico_area_mensal_png, lines 171-172: the length guard
MensalCheck ==
    /\ op = "grafico_area_mensal_png" /\ pc = "start"
    /\ IF MensalLenOk(args.valores)
       THEN pc' = "checked" /\ result' = result
       ELSE pc' = "raised" /\ result' = Raised("Forneca 12 valores (um por mes).")
    /\ UNCHANGED <<op, doc, doc0, args, loc>>

\* grafico_area_mensal_png, line 174: the conversion
MensalConvert ==
    /\ op = "grafico_area_mensal_png" /\ pc = "checked"
    /\ loc' = [loc EXCEPT !.ys = [i \in 1..Len(args.valores) |-> CoerceFloatOf(args.valores[i])]]
    /\ pc' = "series"
    /\ UNCHANGED <<op, doc, doc0, args, result>>

\* grafico_area_mensal_png, lines 178-182: the y scale
MensalScale ==
    /\ op = "grafico_area_mensal_png" /\ pc = "series"
    /\ LET valid == NotNaN(loc.ys)
       IN  IF valid = <<>>
           THEN /\ result' = Raised("Sem valores numericos validos.")
                /\ pc' = "raised"
                /\ loc' = loc
           ELSE IF FloatMax(valid).k = "inf"
           THEN /\ result' = Raised("OverflowError")
                /\ pc' = "raised"
                /\ loc' = loc
           ELSE /\ loc' = [loc EXCEPT !.y_max = MensalYmax(FloatMax(valid).c)]
                /\ pc' = "scaled"
                /\ result' = result
    /\ UNCHANGED <<op, doc, doc0, args>>

\* grafico_area_mensal_png, lines 189-222: axes, area, line, the PNG bytes
MensalDraw ==
    /\ op = "grafico_area_mensal_png" /\ pc = "scaled"
    /\ result' = Png(loc.y_max, loc.ys)
    /\ pc' = "done"
    /\ UNCHANGED <<op, doc, doc0, args, loc>>

ChartInit ==
    /\ op \in {"grafico_trimestral_png", "grafico_area_mensal_png"}
    /\ args \in (IF op = "grafico_trimestral_png" THEN TriArgs ELSE MensalArgs)
    /\ pc = "start"
    /\ doc = <<>>
    /\ doc0 = <<>>
    /\ loc = NoLoc
    /\ result = NoResult

ChartNext ==
    \/ TrimestralSeries
    \/ TrimestralScale
    \/ TrimestralDraw
    \/ MensalCheck
    \/ MensalConvert
    \/ MensalScale
    \/ MensalDraw

SpecChart == ChartInit /\ [][ChartNext]_vars

(***************************************************************************)
(* Claims about the chart rasterizers (checked under SpecChart)            *)
(***************************************************************************)
\* C9: grafico_area_mensal_png rejects every list whose length is not 12 with an
\* error before any conversion or drawing: for such an input the call is either
\* not yet started or has raised, nothing was converted and no PNG is returned.
C9_MensalRejectsWrongLength ==
    (op = "grafico_area_mensal_png" /\ Len(args.valores) # 12) =>
        /\ pc \in {"start", "raised"}
        /\ loc.ys = <<>>
        /\ loc.y_max = 0
        /\ result.status # "png"
        /\ (pc = "raised" => result.status = "error")

\* a list of 13 values, and one of 11, has been rejected
C9_Witness ==
    /\ op = "grafico_area_mensal_png"
    /\ Len(args.valores) \in {11, 13}
    /\ pc = "raised"
    /\ result.status = "error"

\* the finite values of the quarterly series as converted
TriFinite == { v \in {(loc.y_anun \o loc.y_vend)[i] : i \in 1..(2 * Len(loc.y_anun))} : v.k = "fin" }

\* the numbers the caller passed as numbers, read from the arguments
TriRawNums ==
    {args.data[i].anuncios.c : i \in {j \in 1..Len(args.data) : args.data[j].anuncios.t = "num"}}
      \cup {args.data[i].vendidos.c : i \in {j \in 1..Len(args.data) : args.data[j].vendidos.t = "num"}}

TriAxisOk ==
    /\ loc.y_max % 2000 = 0
    /\ loc.y_max >= 8000
    /\ \A v \in TriFinite : loc.y_max >= v.c
    /\ \A c \in TriRawNums : loc.y_max >= c
    /\ (loc.y_max > 8000 => \E v \in TriFinite : v.c > loc.y_max - 2000)

\* C10 as stated: the y-axis maximum used by grafico_trimestral_png is always a
\* multiple of 20, at least 80 and not below the largest parseable value.
C10_Original ==
    (op = "grafico_trimestral_png" /\ pc \in {"scaled", "done"}) => TriAxisOk

\* C10 amended: when the caller passes no ylim, the y-axis maximum used by
\* grafico_trimestral_png is a multiple of 20, at least 80, not below the largest
\* finite parseable value over both series and the least such multiple;
\* unparseable entries are ignored.
C10_YmaxWithoutYlim ==
    (op = "grafico_trimestral_png" /\ pc \in {"scaled", "done"} /\ ~args.ylim.given) =>
        TriAxisOk

\* a chart drawn without ylim whose data exceed 80 and hold an unparseable entry
C10_Witness ==
    /\ op = "grafico_trimestral_png"
    /\ pc = "done"
    /\ ~args.ylim.given
    /\ loc.y_max = 10000
    /\ \E i \in 1..Len(loc.y_anun) : IsNaN(loc.y_anun[i]) \/ IsNaN(loc.y_vend[i])

\* the raw inputs that stand for no number: None, the empty string, a word
MissingRaw == { RawNone, RawStr(<<>>), RawStr(<<"x">>) }

\* the raw inputs that parse to infinity
InfRaw == { RawStr(<<"inf">>) }

\* the raw inputs of the call, in the order of the series of the chart
ChartRaws ==
    IF op = "grafico_trimestral_png"
    THEN [i \in 1..Len(args.data) |-> args.data[i].vendidos]
           \o [i \in 1..Len(args.data) |-> args.data[i].anuncios]
    ELSE args.valores

\* a call the claim is about: some input is missing, none is infinite, and the
\* monthly chart is given its 12 inputs
ChartWithMissing ==
    /\ op \in {"grafico_trimestral_png", "grafico_area_mensal_png"}
    /\ \E i \in 1..Len(ChartRaws) : ChartRaws[i] \in MissingRaw
    /\ \A i \in 1..Len(ChartRaws) : ChartRaws[i] \notin InfRaw
    /\ (op = "grafico_area_mensal_png" => Len(args.valores) = 12)

\* some input of the call is a number
SomeNumeric == \E i \in 1..Len(ChartRaws) : ChartRaws[i] \notin MissingRaw

\* the chart is produced, and its series has a gap exactly at the missing inputs
GapsAtMissing ==
    /\ result.status = "png"
    /\ Len(result.series) = Len(ChartRaws)
    /\ \A i \in 1..Len(ChartRaws) :
          /\ IsNaN(result.series[i]) <=> ChartRaws[i] \in MissingRaw
          /\ ChartRaws[i].t = "num" => result.series[i] = Fin(ChartRaws[i].c)

NoColor == [kind |-> "none", val |-> "", br |-> 0]

DefaultFont == [name |-> "", size |-> 0, bold |-> "none", italic |-> "none", color |-> NoColor]

BoldFont == [DefaultFont EXCEPT !.bold = "true"]

Run(t, f) == [text |-> t, font |-> f]

\* ''.join(run.text for run in paragraph.runs), which is paragraph.text too
ParaText(p) == Join([i \in 1..Len(p) |-> p[i].text])

\* for run in paragraph.runs: run.text = ""
ClearRuns(p) == [i \in 1..Len(p) |-> [p[i] EXCEPT !.text = <<>>]]

\* paragraph.add_run(text): a new run without properties, after the last one
AddRun(p, t) == Append(p, Run(t, DefaultFont))

\* run = paragraph.add_run(text); run.bold = True
AddBoldRun(p, t) == Append(p, Run(t, BoldFont))

\* paragraph.text = t: every run is removed and one plain run holds the text
SetParaText(t) == <<Run(t, DefaultFont)>>

\* the texts of a paragraph's runs, empty runs left out
RunTexts(p) == SelectSeq([i \in 1..Len(p) |-> p[i].text], LAMBDA t : t # <<>>)

(***************************************************************************)
(* The promessa paragraph functions (api/promessa_compra_e_venda.py)       *)
(***************************************************************************)
\* a key in single braces, {name}
K(name) == <<"{", name, "}">>

\* a key in double braces, {{name}}
KK(name) == <<"{", "{", name, "}", "}">>

\* the delimiter substituir_variaveis_em_runs marks found keys with
AT3 == <<"@", "@", "@">>

\* values of the binding context: a string, None or the gravame record
StrV(s) == [t |-> "str", s |-> s, d |-> <<>>]

NoneV == [t |-> "none", s |-> <<>>, d |-> <<>>]

\* gravame_info: tipo_gravame, beneficiario_gravame, beneficiario_cnpj_gravame,
\* registro_gravame, in that order
DictV(d) == [t |-> "dict", s |-> <<>>, d |-> d]

\* str(value) of line 142
PyStr(v) ==
    IF v.t = "str" THEN v.s
    ELSE IF v.t = "none" THEN <<"None">>
    ELSE <<"{'tipo_gravame': ...}">>

\* bool(value)
Truthy(v) == IF v.t = "str" THEN v.s # <<>> ELSE v.t = "dict"

\* the position of key k in the ordered dict vb (0: absent)
KeyIndex(vb, k) ==
    IF \E i \in 1..Len(vb) : vb[i].key = k
    THEN CHOOSE i \in 1..Len(vb) : vb[i].key = k
    ELSE 0

\* lines 98-129 without the gravame branch: every key found in the text is
\* wrapped in the delimiter, in dict order
RECURSIVE MarkKeys(_, _, _)
MarkKeys(ft, vb, i) ==
    IF i > Len(vb) THEN ft
    ELSE MarkKeys(IF Contains(ft, vb[i].key)
                     THEN Replace(ft, vb[i].key, AT3 \o vb[i].key \o AT3)
                     ELSE ft,
                  vb, i + 1)

\* lines 138-145: one new run per part, a part that is a key gives its value
RECURSIVE EmitParts(_, _, _)
EmitParts(p, partes, vb) ==
    IF partes = <<>> THEN p
    ELSE LET parte == Head(partes)
             i     == KeyIndex(vb, parte)
         IN  EmitParts(AddRun(p, IF i > 0 THEN PyStr(vb[i].val) ELSE parte),
                       Tail(partes), vb)

\* lines 112-126: the runs of the encumbrance clause
GravameRuns(p, d) ==
    LET r1  == AddRun(p, <<", com excecao da ">>)
        r2  == AddRun(r1, d[1])
        r3  == AddRun(r2, <<" em favor da(o) ">>)
        r4  == AddRun(r3, d[2])
        r5  == AddRun(r4, <<", inscrito no CNPJ/MF n. ">>)
        r6  == AddRun(r5, d[3])
        r7  == AddRun(r6, <<", registrada no R-">>)
        r8  == AddRun(r7, d[4])
        r9  == AddRun(r8, <<" da matricula do imovel ... abatendo do valor a ser repassado ao(s) ">>)
        r10 == AddBoldRun(r9, <<"PROMITENTE(S) VENDEDOR(ES)">>)
        r11 == AddRun(r10, <<" pelo sistema de ">>)
        r12 == AddBoldRun(r11, <<"Interveniente Quitante">>)
    IN  AddRun(r12, <<", e a consequente averbacao da baixa ... Compra e Venda.">>)

\* lines 101-127 for the first run idx that holds the whole {gravame} key
GravameBranch(p, idx, valor) ==
    LET p1    == IF idx > 1 /\ p[idx - 1].text # <<>> /\ p[idx - 1].text[Len(p[idx - 1].text)] = " "
                    THEN [p EXCEPT ![idx - 1].text = RStrip(p[idx - 1].text)]
                    ELSE p
        parts == Split(p[idx].text, K("gravame"))
        p2    == [p1 EXCEPT ![idx].text = parts[1]]
        p3    == IF Len(parts) > 1 THEN AddRun(p2, parts[2]) ELSE p2
    IN  IF Truthy(valor) THEN GravameRuns(p3, valor.d) ELSE p3

\* whether the loop of lines 98-129 reaches the gravame branch: {gravame} is in
\* the dict, in the text, and whole inside one run
GravameRunIdx(p) ==
    IF \E i \in 1..Len(p) : Contains(p[i].text, K("gravame"))
    THEN CHOOSE i \in 1..Len(p) :
            /\ Contains(p[i].text, K("gravame"))
            /\ \A j \in 1..(i - 1) : ~Contains(p[j].text, K("gravame"))
    ELSE 0

\* lines 131-145: the scalar path on the marked text
ScalarPath(p, marked, vb) ==
    IF ~Contains(marked, AT3) THEN p
    ELSE EmitParts(ClearRuns(p), Split(marked, AT3), vb)

\* substituir_variaveis_em_runs(paragraph, variaveis_bold), lines 95-145
substituir_variaveis_em_runs(p, vb) ==
    LET g == KeyIndex(vb, K("gravame"))
    IN  IF g > 0 /\ Contains(ParaText(p), K("gravame")) /\ GravameRunIdx(p) > 0
        THEN GravameBranch(p, GravameRunIdx(p), vb[g].val)
        ELSE ScalarPath(p, MarkKeys(ParaText(p), vb, 1), vb)

\* gerar_texto_fgts(paragraph, fgts_ativo), lines 181-200
gerar_texto_fgts(p, fgts_ativo) ==
    IF ~Contains(ParaText(p), K("fgts")) THEN p
    ELSE IF fgts_ativo
    THEN LET r1 == AddRun(ClearRuns(p), <<"2.7. ">>)
             r2 == AddBoldRun(r1, <<"O(s) PROMISSARIO(S) COMPRADOR(ES) ">>)
             r3 == AddRun(r2, <<"se responsabiliza(m) plenamente ... com recursos proprios.">>)
             r4 == AddBoldRun(r3, <<"Paragrafo Primeiro: ">>)
         IN  AddRun(r4, <<"o pagamento de eventuais tarifas ... PROMISSARIO(S) COMPRADOR(ES).">>)
    ELSE AddRun(ClearRuns(p), <<>>)

\* gerar_texto_relacao_movies(paragraph, texto_relacao), lines 202-213
gerar_texto_relacao_movies(p, texto_relacao) ==
    IF ~Contains(ParaText(p), K("relacao_movies")) THEN p
    ELSE IF Truthy(texto_relacao)
    THEN AddRun(ClearRuns(p), <<"\"">> \o texto_relacao.s \o <<"\"">>)
    ELSE AddRun(ClearRuns(p), <<>>)

\* gerar_texto_isimob with the same ending in both branches
gerar_texto_isimob_SameEnding(p, is_imob, nome_imob) ==
    IF ~Contains(ParaText(p), KK("isImob")) THEN p
    ELSE LET partes == Split(ParaText(p), KK("isImob"))
             r0 == AddRun(ClearRuns(p), partes[1])
             r1 == IF is_imob /\ Truthy(nome_imob)
                   THEN AddRun(AddBoldRun(AddRun(r0, <<"da ">>), nome_imob.s),
                               <<"do(s) corretor(es) de imoveis">>)
                   ELSE AddRun(r0, <<"do(s) corretor(es) de imoveis">>)
         IN  IF Len(partes) > 1 THEN AddRun(r1, partes[2]) ELSE r1

\* gerar_texto_isimob(paragraph, is_imob, nome_imob), lines 65-89
gerar_texto_isimob(p, is_imob, nome_imob) ==
    IF ~Contains(ParaText(p), KK("isImob")) THEN p
    ELSE LET partes == Split(ParaText(p), KK("isImob"))
             r0 == AddRun(ClearRuns(p), partes[1])
             r1 == IF is_imob /\ Truthy(nome_imob)
                   THEN AddRun(AddBoldRun(AddRun(r0, <<"da ">>), nome_imob.s),
                               <<", e do(s) corretor(es) de imoveis parceiros/associados">>)
                   ELSE AddRun(r0, <<"do(s) corretor(es) de imoveis">>)
         IN  IF Len(partes) > 1 THEN AddRun(r1, partes[2]) ELSE r1

(***************************************************************************)
(* The pptx text functions (app/laudo_pptx.py)                             *)
(***************************************************************************)
\* atoms that are not of the class [A-Za-z0-9_]
NonWord == {"{", "}", " ", "@", ",", ".", "-", ":", "\""}

IsWord(a) == a \notin NonWord

IsBlank(a) == a = " "

\* the first index >= i of s whose atom is not blank (Len(s) + 1 if none)
RECURSIVE SkipBlank(_, _)
SkipBlank(s, i) == IF i <= Len(s) /\ IsBlank(s[i]) THEN SkipBlank(s, i + 1) ELSE i

\* the first index >= i of s whose atom is not of the word class
RECURSIVE SkipWord(_, _)
SkipWord(s, i) == IF i <= Len(s) /\ IsWord(s[i]) THEN SkipWord(s, i + 1) ELSE i

\* REX = \{\{\s*([A-Za-z0-9_]+)\s*\}\} matched at index i of s: whether it
\* matches, the index after the match and group(1)
RexMatch(s, i) ==
    LET b == SkipBlank(s, i + 2)
        c == SkipWord(s, b)
        d == SkipBlank(s, c)
    IN  IF /\ i + 1 <= Len(s) /\ s[i] = "{" /\ s[i + 1] = "{"
           /\ c > b
           /\ d + 1 <= Len(s) /\ s[d] = "}" /\ s[d + 1] = "}"
        THEN [ok |-> TRUE, end |-> d + 2, key |-> SubSeq(s, b, c - 1)]
        ELSE [ok |-> FALSE, end |-> i, key |-> <<>>]

\* REX.fullmatch(s)
RexFullMatch(s) ==
    LET m == RexMatch(s, 1)
    IN  IF m.ok /\ m.end = Len(s) + 1 THEN m ELSE [ok |-> FALSE, end |-> 1, key |-> <<>>]

\* _get_value that looks at the alias before the key itself
get_value_AliasFirst(VARS, ALIASES, k) ==
    IF KeyIndex(ALIASES, k) > 0 /\ KeyIndex(VARS, ALIASES[KeyIndex(ALIASES, k)].val) > 0
    THEN KeyIndex(VARS, ALIASES[KeyIndex(ALIASES, k)].val)
    ELSE KeyIndex(VARS, k)

\* _get_value of render_laudo, lines 591-596: the index of the value in VARS (0: None)
get_value(VARS, ALIASES, k) ==
    IF KeyIndex(VARS, k) > 0 THEN KeyIndex(VARS, k)
    ELSE IF KeyIndex(ALIASES, k) > 0 /\ KeyIndex(VARS, ALIASES[KeyIndex(ALIASES, k)].val) > 0
    THEN KeyIndex(VARS, ALIASES[KeyIndex(ALIASES, k)].val)
    ELSE 0

\* REX.sub(repl, txt) with repl of lines 284-287, from index i on
RECURSIVE RexSub(_, _, _, _)
RexSub(s, i, VARS, ALIASES) ==
    IF i > Len(s) THEN <<>>
    ELSE LET m == RexMatch(s, i)
             v == get_value(VARS, ALIASES, m.key)
         IN  IF m.ok
             THEN (IF v > 0 THEN VARS[v].val ELSE SubSeq(s, i, m.end - 1))
                    \o RexSub(s, m.end, VARS, ALIASES)
             ELSE <<s[i]>> \o RexSub(s, i + 1, VARS, ALIASES)

\* _snapshot_font, lines 227-248
snapshot_font(f) ==
    [name |-> f.name, size |-> f.size, bold |-> f.bold, italic |-> f.italic,
     color_info |-> IF f.color.kind = "rgb" THEN [kind |-> "rgb", val |-> f.color.val, br |-> 0]
                    ELSE IF f.color.kind = "scheme" THEN f.color
                    ELSE NoColor]

\* _restore_font without the brightness of a theme colour
restore_font_NoBrightness(f, snap) ==
    LET f1 == IF snap.name # "" THEN [f EXCEPT !.name = snap.name] ELSE f
        f2 == IF snap.size # 0 THEN [f1 EXCEPT !.size = snap.size] ELSE f1
        f3 == IF snap.bold # "none" THEN [f2 EXCEPT !.bold = snap.bold] ELSE f2
        f4 == IF snap.italic # "none" THEN [f3 EXCEPT !.italic = snap.italic] ELSE f3
    IN  IF snap.color_info.kind = "rgb"
        THEN [f4 EXCEPT !.color = [kind |-> "rgb", val |-> snap.color_info.val, br |-> 0]]
        ELSE IF snap.color_info.kind = "scheme"
        THEN [f4 EXCEPT !.color = [kind |-> "scheme", val |-> snap.color_info.val, br |-> 0]]
        ELSE f4

\* _restore_font, lines 250-267
restore_font(f, snap) ==
    LET f1 == IF snap.name # "" THEN [f EXCEPT !.name = snap.name] ELSE f
        f2 == IF snap.size # 0 THEN [f1 EXCEPT !.size = snap.size] ELSE f1
        f3 == IF snap.bold # "none" THEN [f2 EXCEPT !.bold = snap.bold] ELSE f2
        f4 == IF snap.italic # "none" THEN [f3 EXCEPT !.italic = snap.italic] ELSE f3
    IN  IF snap.color_info.kind = "rgb"
        THEN [f4 EXCEPT !.color = [kind |-> "rgb", val |-> snap.color_info.val, br |-> 0]]
        ELSE IF snap.color_info.kind = "scheme"
        THEN [f4 EXCEPT !.color = [kind |-> "scheme", val |-> snap.color_info.val,
                                   br |-> snap.color_info.br]]
        ELSE f4

\* the body of the run loop of _replace_text_in_textframe, lines 276-291
ReplaceInRun(r, VARS, ALIASES, img_keys_set) ==
    LET txt     == r.text
        full    == RexFullMatch(Strip(txt))
        new_txt == RexSub(txt, 1, VARS, ALIASES)
    IN  IF ~Contains(txt, <<"{", "{">>) THEN r
        ELSE IF full.ok /\ full.key \in img_keys_set THEN r
        ELSE IF new_txt # txt
        THEN [text |-> new_txt, font |-> restore_font(r.font, snapshot_font(r.font))]
        ELSE r

\* _replace_text_in_textframe(text_frame, get_value_fn, img_keys_set), lines 269-291
replace_text_in_textframe(tf, VARS, ALIASES, img_keys_set) ==
    [i \in 1..Len(tf) |->
        [j \in 1..Len(tf[i]) |-> ReplaceInRun(tf[i][j], VARS, ALIASES, img_keys_set)]]

(***************************************************************************)
(* Substitution over one paragraph (docx) or one text frame (pptx)         *)
(***************************************************************************)
\* the most runs a paragraph of the inputs holds
MaxRuns == 2

ArialBoldRed ==
    [name |-> "Arial", size |-> 12, bold |-> "true", italic |-> "none",
     color |-> [kind |-> "rgb", val |-> "FF0000", br |-> 0]]

NunitoItalicAccent ==
    [name |-> "Nunito", size |-> 10, bold |-> "false", italic |-> "true",
     color |-> [kind |-> "scheme", val |-> "ACCENT_1", br |-> 40]]

\* how the runs of an input paragraph are styled
FontPatterns == {"plain", "styled", "mixed"}

FontAt(pat, i) ==
    IF pat = "plain" THEN DefaultFont
    ELSE IF pat = "styled" THEN ArialBoldRed
    ELSE IF i % 2 = 1 THEN ArialBoldRed ELSE NunitoItalicAccent

\* the paragraphs of at most n runs with texts from T
Paragraphs(T, n) ==
    { [i \in 1..Len(ts) |-> Run(ts[i], FontAt(pat, i))] :
        ts \in SeqsUpTo(T, n), pat \in FontPatterns }

\* run texts of a promessa template paragraph
DocxRunTexts ==
    { <<"a">>, <<"a", " ">>,
      K("gravame"), <<"{", "gravame">>, <<"}", "b">>,
      <<"x">> \o K("endereco_imovel"), K("valor_imovel") \o <<"y">>,
      K("forma_de_pagamento_sinal"),
      <<"a", "@", "@", "@", "b">>,
      K("fgts"), KK("isImob"), K("relacao_movies"),
      K("unknown") }

GravameInfo == DictV(<<<<"alienacao">>, <<"Banco">>, <<"00.000/0001">>, <<"5">>>>)

\* variaveis_bold as preencher_promessa builds it (lines 229-242), in dict order
VariaveisBold(endereco, forma, gravame, valor) ==
    << [key |-> K("endereco_imovel"), val |-> endereco],
       [key |-> K("forma_de_pagamento_sinal"), val |-> forma],
       [key |-> K("gravame"), val |-> gravame],
       [key |-> K("valor_imovel"), val |-> valor] >>

NoCtx ==
    [vb |-> <<>>, fgts |-> FALSE, relacao |-> NoneV, isImob |-> FALSE, nomeImob |-> NoneV,
     VARS |-> <<>>, ALIASES |-> <<>>, img_keys |-> {}]

\* binding contexts of the promessa paragraph functions
PromessaCtxs ==
    { [NoCtx EXCEPT !.vb = VariaveisBold(StrV(<<"Rua">>), StrV(<<"pix">>), GravameInfo,
                                          StrV(<<"1.000,00">>)),
                    !.fgts = TRUE, !.relacao = StrV(<<"sofa">>),
                    !.isImob = TRUE, !.nomeImob = StrV(<<"ImobX">>)],
      [NoCtx EXCEPT !.vb = VariaveisBold(StrV(<<"Rua">>), NoneV, NoneV, StrV(<<>>)),
                    !.fgts = FALSE, !.relacao = NoneV,
                    !.isImob = TRUE, !.nomeImob = NoneV],
      [NoCtx EXCEPT !.vb = VariaveisBold(StrV(<<>>), StrV(<<"pix">>), GravameInfo,
                                          StrV(<<"1.000,00">>)),
                    !.fgts = TRUE, !.relacao = StrV(<<>>),
                    !.isImob = FALSE, !.nomeImob = StrV(<<"ImobX">>)] }

\* run texts of a laudo text box
PptxRunTexts ==
    { <<"a">>, KK("nome"), <<"x", " ">> \o KK("nome"),
      <<"{", "{", " ", "nome", " ", "}", "}">>,
      KK("grafico_01"), <<" ">> \o KK("grafico_01") \o <<" ">>,
      KK("livre"), KK("apelido"), KK("nome") \o KK("livre"),
      <<"{", "{", "nome">>, <<"}", "}">> }

\* text_vars, aliases and the image keys of render_laudo
LaudoCtxs ==
    { [NoCtx EXCEPT !.VARS = << [key |-> <<"nome">>, val |-> <<"Ana">>] >>,
                    !.ALIASES = << [key |-> <<"apelido">>, val |-> <<"nome">>] >>,
                    !.img_keys = {<<"grafico_01">>}],
      [NoCtx EXCEPT !.VARS = << [key |-> <<"nome">>, val |-> <<"Ana">>],
                                [key |-> <<"apelido">>, val |-> <<"Nana">>],
                                [key |-> <<"grafico_01">>, val |-> <<"G">>] >>,
                    !.ALIASES = << [key |-> <<"apelido">>, val |-> <<"nome">>],
                                   [key |-> <<"livre">>, val |-> <<"ausente">>] >>,
                    !.img_keys = {<<"grafico_01">>}],
      [NoCtx EXCEPT !.VARS = <<>>, !.ALIASES = <<>>, !.img_keys = {}] }

\* preencher_promessa line 252
ParaSubstituir ==
    /\ op = "promessa_paragraph" /\ pc = "start"
    /\ doc' = <<substituir_variaveis_em_runs(doc[1], args.vb)>>
    /\ pc' = "substituido"
    /\ UNCHANGED <<op, doc0, args, loc, result>>

\* preencher_promessa line 253
ParaFgts ==
    /\ op = "promessa_paragraph" /\ pc = "substituido"
    /\ doc' = <<gerar_texto_fgts(doc[1], args.fgts)>>
    /\ pc' = "fgts"
    /\ UNCHANGED <<op, doc0, args, loc, result>>

\* preencher_promessa line 254
ParaRelacao ==
    /\ op = "promessa_paragraph" /\ pc = "fgts"
    /\ doc' = <<gerar_texto_relacao_movies(doc[1], args.relacao)>>
    /\ pc' = "relacao"
    /\ UNCHANGED <<op, doc0, args, loc, result>>

\* preencher_promessa line 255
ParaIsImob ==
    /\ op = "promessa_paragraph" /\ pc = "relacao"
    /\ doc' = <<gerar_texto_isimob(doc[1], args.isImob, args.nomeImob)>>
    /\ pc' = "done"
    /\ UNCHANGED <<op, doc0, args, loc, result>>

\* _walk line 353 on one text box
TextFrameReplace ==
    /\ op = "laudo_textframe" /\ pc = "start"
    /\ doc' = replace_text_in_textframe(doc, args.VARS, args.ALIASES, args.img_keys)
    /\ pc' = "done"
    /\ UNCHANGED <<op, doc0, args, loc, result>>

ParaInit ==
    /\ op \in {"promessa_paragraph", "laudo_textframe"}
    /\ pc = "start"
    /\ args \in (IF op = "promessa_paragraph" THEN PromessaCtxs ELSE LaudoCtxs)
    /\ doc0 \in { <<p>> : p \in (IF op = "promessa_paragraph"
                                    THEN Paragraphs(DocxRunTexts, MaxRuns)
                                    ELSE Paragraphs(PptxRunTexts, MaxRuns)) }
    /\ doc = doc0
    /\ loc = NoLoc
    /\ result = NoResult

ParaNext ==
    \/ ParaSubstituir
    \/ ParaFgts
    \/ ParaRelacao
    \/ ParaIsImob
    \/ TextFrameReplace

SpecPara == ParaInit /\ [][ParaNext]_vars

(***************************************************************************)
(* Claims about paragraph substitution (checked under SpecPara)            *)
(***************************************************************************)
\* the keys the promessa paragraph functions look for
DocxKeys(ctx) ==
    {ctx.vb[i].key : i \in 1..Len(ctx.vb)} \cup {K("fgts"), K("relacao_movies"), KK("isImob")}

\* the template paragraph holds none of the keys of the docx path
NoDocxKey == \A k \in DocxKeys(args) : ~Contains(ParaText(doc0[1]), k)

\* the template text frame holds no {{key}} token whose key has a value
NoPptxKey ==
    \A i \in 1..Len(doc0) : \A j \in 1..Len(ParaText(doc0[i])) :
        LET m == RexMatch(ParaText(doc0[i]), j)
        IN  m.ok => get_value(args.VARS, args.ALIASES, m.key) = 0

\* C1: substitution over a paragraph whose text contains no recognized
\* placeholder key is a no-op: the paragraph keeps its runs, their texts and
\* their formatting, on the docx path and on the pptx path.
C1_NoKeyNoOp ==
    /\ (op = "promessa_paragraph" /\ NoDocxKey) => doc = doc0
    /\ (op = "laudo_textframe" /\ NoPptxKey) => doc = doc0

\* C1 away from the delimiter: a paragraph that holds no recognized key and not
\* the text "@@@" is left as it was.
C1_NoKeyNoDelimiterNoOp ==
    /\ (op = "promessa_paragraph" /\ NoDocxKey /\ ~Contains(ParaText(doc0[1]), AT3)) => doc = doc0
    /\ (op = "laudo_textframe" /\ NoPptxKey) => doc = doc0

\* the atoms of a text
AtomsOf(t) == {t[i] : i \in 1..Len(t)}

\* the paragraph has a bold run with exactly this text
HasBoldRun(p, t) == \E i \in 1..Len(p) : p[i].text = t /\ p[i].font.bold = "true"

\* the value bound to {gravame} in the context
GravameValor == args.vb[KeyIndex(args.vb, K("gravame"))].val

\* substituir_variaveis_em_runs is about to run on a paragraph whose
\* concatenated text holds {gravame}
GravameCase ==
    /\ op = "promessa_paragraph" /\ pc = "start"
    /\ Contains(ParaText(doc[1]), K("gravame"))

\* the clause as the claim describes it: the four sub-fields and the two bold
\* phrases for a present value; for an absent one no token and no new text
GravameClause(before, after, valor) ==
    IF valor.t = "dict"
    THEN /\ \A i \in 1..4 : Contains(ParaText(after), valor.d[i])
         /\ HasBoldRun(after, <<"PROMITENTE(S) VENDEDOR(ES)">>)
         /\ HasBoldRun(after, <<"Interveniente Quitante">>)
    ELSE /\ ~Contains(ParaText(after), K("gravame"))
         /\ AtomsOf(ParaText(after)) \subseteq AtomsOf(ParaText(before))

\* C11: for every paragraph whose concatenated run text contains {gravame},
\* inside one run or across run boundaries, a present value yields text with the
\* four sub-fields and the two bold runs, and an absent value leaves neither the
\* token nor any generated text.
C11_GravameClause ==
    [][ GravameCase => GravameClause(doc[1], doc'[1], GravameValor) ]_vars

\* C11 for a token that lies once inside one run
C11_GravameInOneRun ==
    [][ (GravameCase /\ Len(Split(ParaText(doc[1]), K("gravame"))) = 2
                     /\ GravameRunIdx(doc[1]) > 0)
            => GravameClause(doc[1], doc'[1], GravameValor) ]_vars

\* a composite generator is about to rebuild the paragraph
CompositeCase ==
    /\ op = "promessa_paragraph"
    /\ \/ pc = "start" /\ Contains(ParaText(doc[1]), K("gravame"))
       \/ pc = "substituido" /\ Contains(ParaText(doc[1]), K("fgts"))
       \/ pc = "relacao" /\ Contains(ParaText(doc[1]), KK("isImob"))

\* C12: after composite generation on a paragraph ({gravame}, {fgts},
\* {{isImob}}) every original run has had its text erased; the visible text
\* comes from the runs the generator appended.
C12_OriginalRunsErased ==
    [][ CompositeCase =>
            /\ Len(doc'[1]) >= Len(doc[1])
            /\ \A i \in 1..Len(doc[1]) : doc'[1][i].text = <<>> ]_vars

\* C12 for gerar_texto_fgts and gerar_texto_isimob alone
C12_OriginalRunsErasedFgtsIsImob ==
    [][ (CompositeCase /\ pc # "start") =>
            /\ Len(doc'[1]) >= Len(doc[1])
            /\ \A i \in 1..Len(doc[1]) : doc'[1][i].text = <<>> ]_vars

\* the scalar keys of the context
ScalarKeys == {args.vb[i].key : i \in 1..Len(args.vb)} \ {K("gravame")}

\* C13: whenever the concatenated text of a paragraph contains {gravame},
\* substituir_variaveis_em_runs substitutes no scalar key of that paragraph
\* and never renders the composite value as a string.
C13_CompositeExcludesScalar ==
    [][ GravameCase =>
            /\ \A k \in ScalarKeys :
                  Contains(ParaText(doc[1]), k) => Contains(ParaText(doc'[1]), k)
            /\ \A i \in 1..Len(doc'[1]) : doc'[1][i].text # PyStr(GravameValor) ]_vars

\* gerar_texto_isimob is about to run on a paragraph that holds {{isImob}} once
IsImobCase ==
    /\ op = "promessa_paragraph" /\ pc = "relacao"
    /\ Len(Split(ParaText(doc[1]), KK("isImob"))) = 2

\* the text put in the place of the token
IsImobInserted(before, after) ==
    LET partes == Split(ParaText(before), KK("isImob"))
        t      == ParaText(after)
    IN  SubSeq(t, Len(partes[1]) + 1, Len(t) - Len(partes[2]))

\* the text before and after the token is kept around what is inserted
IsImobAround(before, after) ==
    LET partes == Split(ParaText(before), KK("isImob"))
        t      == ParaText(after)
    IN  /\ Len(t) >= Len(partes[1]) + Len(partes[2])
        /\ SubSeq(t, 1, Len(partes[1])) = partes[1]
        /\ SubSeq(t, Len(t) - Len(partes[2]) + 1, Len(t)) = partes[2]

\* the branch the claim selects by is_imob and nome_imob
IsImobBranch ==
    IF ~args.isImob THEN "unrepresented"
    ELSE IF Truthy(args.nomeImob) THEN "represented_with_name"
    ELSE "represented"

ScalarCase ==
    /\ op = "promessa_paragraph" /\ pc = "start"
    /\ ~Contains(ParaText(doc[1]), K("gravame"))
    /\ \E k \in ScalarKeys : Contains(ParaText(doc[1]), k)

\* C16: on the docx path, when substituir_variaveis_em_runs rebuilds a
\* paragraph that had a matched scalar key, every re-emitted literal segment
\* carries the font attributes of one of the paragraph's original runs.
C16_LiteralsKeepFont ==
    [][ ScalarCase =>
            \A j \in 1..Len(doc'[1]) :
                (/\ j > Len(doc[1])
                 /\ doc'[1][j].text # <<>>
                 /\ Contains(ParaText(doc[1]), doc'[1][j].text))
                    => \E i \in 1..Len(doc[1]) : doc'[1][j].font = doc[1][i].font ]_vars

\* the text value the claim gives a key: its own value in text_vars, else the
\* value of the key its alias names, else none
TextValue(k) ==
    LET direct == {i \in 1..Len(args.VARS) : args.VARS[i].key = k}
        alias  == {j \in 1..Len(args.VARS) :
                      \E a \in 1..Len(args.ALIASES) :
                          args.ALIASES[a].key = k /\ args.ALIASES[a].val = args.VARS[j].key}
    IN  IF direct # {} THEN [bound |-> TRUE, val |-> args.VARS[CHOOSE i \in direct : TRUE].val]
        ELSE IF alias # {} THEN [bound |-> TRUE, val |-> args.VARS[CHOOSE j \in alias : TRUE].val]
        ELSE [bound |-> FALSE, val |-> <<>>]

\* the keys the tokens of the text boxes name
TokenKeys == << <<"nome">>, <<"apelido">>, <<"livre">>, <<"grafico_01">> >>

\* the token of a key, plain and written with blanks inside the braces
TokenOf(k) == <<"{", "{">> \o k \o <<"}", "}">>

SpacedTokenOf(k) == <<"{", "{", " ">> \o k \o <<" ", "}", "}">>

\* the text with every token of a key that has a text value replaced by that
\* value, and every other token as it was
RECURSIVE WithTextValues(_, _)
WithTextValues(t, i) ==
    IF i > Len(TokenKeys) THEN t
    ELSE LET k == TokenKeys[i]
             v == TextValue(k)
         IN  WithTextValues(IF v.bound
                            THEN Replace(Replace(t, TokenOf(k), v.val), SpacedTokenOf(k), v.val)
                            ELSE t,
                            i + 1)

\* the run is exactly one token of an image key that also has a text value
BoundImageRun(r) ==
    LET m == RexFullMatch(Strip(r.text))
    IN  m.ok /\ m.key \in args.img_keys /\ TextValue(m.key).bound

P(runs) == [kind |-> "p", runs |-> runs, rows |-> <<>>, cols |-> 0]

Tbl(rows, cols) == [kind |-> "tbl", runs |-> <<>>, rows |-> rows, cols |-> cols]

\* OxmlElement("w:p"): a paragraph without runs
EmptyP == P(<<>>)

\* a paragraph of one run
Plain(t) == <<Run(t, DefaultFont)>>

\* the cell tbl.add_tr / tr.add_tc creates: one paragraph without runs
EmptyCell == << <<>> >>

\* cell.text: the paragraphs' texts joined by newlines
CellText(cell) == JoinSep([i \in 1..Len(cell) |-> ParaText(cell[i])], <<"\n">>)

\* cell.text = t: the content is dropped, one paragraph with one run holds t
SetCellText(t) == << Plain(t) >>

\* table.add_row(): a row of one empty cell per grid column, after the last row
AddRow(tbl) == [tbl EXCEPT !.rows = Append(tbl.rows, [j \in 1..tbl.cols |-> EmptyCell])]

\* F applied to every paragraph of every cell of a table
MapTableParas(tbl, F(_)) ==
    [tbl EXCEPT !.rows =
        [r \in 1..Len(tbl.rows) |->
            [c \in 1..Len(tbl.rows[r]) |->
                [k \in 1..Len(tbl.rows[r][c]) |-> F(tbl.rows[r][c][k])]]]]

\* F applied to doc.paragraphs, then to the cell paragraphs of doc.tables
MapAllParas(body, F(_)) ==
    [i \in 1..Len(body) |->
        IF body[i].kind = "p" THEN [body[i] EXCEPT !.runs = F(body[i].runs)]
        ELSE MapTableParas(body[i], F)]

\* the index of the first paragraph of doc.paragraphs whose text holds ph (0: none)
FirstParaWith(body, ph) ==
    LET hits == {i \in 1..Len(body) : body[i].kind = "p" /\ Contains(ParaText(body[i].runs), ph)}
    IN  IF hits = {} THEN 0 ELSE CHOOSE i \in hits : \A j \in hits : i <= j

\* doc.tables: the indices of the body's tables, in order
TableIdxs(body) == {i \in 1..Len(body) : body[i].kind = "tbl"}

\* the index of doc.tables[0] (0: the document has no table)
FirstTable(body) ==
    IF TableIdxs(body) = {} THEN 0
    ELSE CHOOSE i \in TableIdxs(body) : \A j \in TableIdxs(body) : i <= j

\* substituir_texto_em_todo_documento(doc, placeholder, novo_valor)
\* contrato_de_corretagem.py lines 53-62, declaracao_de_visita.py lines 88-97
substituir_texto_em_todo_documento(body, ph, novo) ==
    MapAllParas(body, LAMBDA p : IF Contains(ParaText(p), ph)
                                  THEN SetParaText(Replace(ParaText(p), ph, novo))
                                  ELSE p)

\* the key loop of preencher_por_variaveis on one run text: keys in dict order,
\* each replaced in the text the earlier ones left
RECURSIVE FillText(_, _, _)
FillText(t, ctx, i) ==
    IF i > Len(ctx) THEN t
    ELSE FillText(IF Contains(t, ctx[i].key) THEN Replace(t, ctx[i].key, ctx[i].val) ELSE t,
                  ctx, i + 1)

FillPara(p, ctx) == [j \in 1..Len(p) |-> [p[j] EXCEPT !.text = FillText(p[j].text, ctx, 1)]]

\* preencher_por_variaveis(tabela, contexto)
\* contrato_de_corretagem.py lines 44-51, declaracao_de_visita.py lines 79-86
preencher_por_variaveis(tbl, ctx) == MapTableParas(tbl, LAMBDA p : FillPara(p, ctx))

\* encontrar_tabela_antes_placeholder(doc, placeholder): the index of the first
\* table that stands right before a paragraph holding the placeholder (0: None)
\* contrato_de_corretagem.py lines 69-78, declaracao_de_visita.py lines 68-77
encontrar_tabela_antes_placeholder(body, ph) ==
    LET hits == {i \in 1..(Len(body) - 1) :
                    /\ body[i + 1].kind = "p"
                    /\ ParaText(body[i + 1].runs) # <<>>
                    /\ Contains(ParaText(body[i + 1].runs), ph)
                    /\ body[i].kind = "tbl"}
    IN  IF hits = {} THEN 0 ELSE CHOOSE i \in hits : \A j \in hits : i <= j

\* the clones of the model table, each followed by the paragraph of
\* inserir_enter_apos, in record order
RECURSIVE Clones(_, _)
Clones(modelo, ctxs) ==
    IF ctxs = <<>> THEN <<>>
    ELSE <<preencher_por_variaveis(modelo, Head(ctxs)), EmptyP>> \o Clones(modelo, Tail(ctxs))

\* the table-per-record block: the model table is copied and removed, the first
\* paragraph holding the anchor gives way to an empty paragraph, and one filled
\* copy per record is put before it
\* contrato_de_corretagem.py lines 105-130 and 132-154, declaracao_de_visita.py lines 116-139
RepeatTables(body, ph, ctxs) ==
    LET i  == encontrar_tabela_antes_placeholder(body, ph)
        b1 == RemoveAt(body, i)
        a  == FirstParaWith(b1, ph)
    IN  IF i = 0 THEN body
        ELSE SubSeq(b1, 1, a - 1) \o Clones(body[i], ctxs) \o <<EmptyP>> \o SubSeq(b1, a + 1, Len(b1))

\* the cell of one party: the signature line, then the name and the identifier
SigCell(nome, idlabel, ident) ==
    << Plain(<<"__________________________________">>),
       Plain(<<"Nome: ">> \o nome),
       Plain(<<idlabel>> \o ident) >>

\* both cells of a row take the party the row starts at
SigParty_Same(idx, j) == idx

\* the party that cell j (0-based) of the row starting at idx takes
SigParty(idx, j) == idx + j

\* the rows of the signature table: for idx in range(0, n, 2), for j in range(2)
SigRows(nomes, idlabel, idents) ==
    [r \in 1..((Len(nomes) + 1) \div 2) |->
        [j \in 1..2 |->
            LET k == SigParty(2 * (r - 1), j - 1)
            IN  IF k < Len(nomes) THEN SigCell(nomes[k + 1], idlabel, idents[k + 1])
                ELSE EmptyCell]]

\* a signature block: the first paragraph holding the anchor is emptied and a
\* two-column table of the parties is put right after it
\* contrato_de_corretagem.py lines 203-233, declaracao_de_visita.py lines 149-163,
\* promessa_compra_e_venda.py lines 277-308
Assinaturas(body, ph, nomes, idlabel, idents) ==
    LET a == FirstParaWith(body, ph)
    IN  IF a = 0 THEN body
        ELSE InsertAfter([body EXCEPT ![a].runs = SetParaText(<<>>)], a,
                         <<Tbl(SigRows(nomes, idlabel, idents), 2)>>)

\* [x.f for x in records]
Field(records, F(_)) == [i \in 1..Len(records) |-> F(records[i])]

(***************************************************************************)
(* Inputs of the document operations                                       *)
(***************************************************************************)
\* the longest record list (contratantes, corretores, visitantes, pagamentos, ...)
MaxRec == 3

\* the longest list of witnesses
MaxTestemunhas == 2

\* people: a visitor, a contracting party, a broker, a seller, a buyer or a witness.
\* The second one has "tel" inside her name and her e-mail address.  The fields of
\* a spouse that are None or empty are written <<>>.
Pessoas ==
    << [nome |-> <<"Ana">>, cpf |-> <<"111">>, email |-> <<"ana@x">>, tel |-> <<"9111">>,
        telefone |-> <<"9111">>, endereco |-> <<"Rua A">>, cidade |-> <<"Gama">>,
        cep |-> <<"70001">>, uf |-> <<"DF">>,
        cnpj |-> <<"11/0001">>, creci |-> <<"c1">>, rg |-> <<"rg1">>, participacao |-> 50,
        nacionalidade |-> <<"brasileira">>, rg_number |-> <<"rg1">>, ssp_rg |-> <<"SSP/DF">>,
        estado_civil |-> <<"Casado(a)">>, nome_conjuge |-> <<"Davi">>,
        nacionalidade_conjuge |-> <<"brasileiro">>, rg_conjuge |-> <<"rg4">>,
        ssp_rg_conjuge |-> <<"SSP/GO">>, cpf_conjuge |-> <<"444">>],
       [nome |-> <<"Es", "tel", "a">>, cpf |-> <<"222">>, email |-> <<"es", "tel", "a@x">>,
        tel |-> <<"9222">>,
        telefone |-> <<"9222">>, endereco |-> <<"Rua B">>, cidade |-> <<"Guara">>,
        cep |-> <<"70002">>, uf |-> <<"DF">>,
        cnpj |-> <<"22/0001">>, creci |-> <<"c2">>, rg |-> <<"rg2">>, participacao |-> 30,
        nacionalidade |-> <<"brasileira">>, rg_number |-> <<"rg2">>, ssp_rg |-> <<"SSP/DF">>,
        estado_civil |-> <<"casado(a)">>, nome_conjuge |-> <<>>,
        nacionalidade_conjuge |-> <<>>, rg_conjuge |-> <<>>,
        ssp_rg_conjuge |-> <<>>, cpf_conjuge |-> <<>>],
       [nome |-> <<"Bruno">>, cpf |-> <<"333">>, email |-> <<"bruno@x">>, tel |-> <<"9333">>,
        telefone |-> <<"9333">>, endereco |-> <<"Rua C">>, cidade |-> <<"Luziania">>,
        cep |-> <<"70003">>, uf |-> <<"GO">>,
        cnpj |-> <<"33/0001">>, creci |-> <<"c3">>, rg |-> <<"rg3">>, participacao |-> 20,
        nacionalidade |-> <<"brasileiro">>, rg_number |-> <<"rg3">>, ssp_rg |-> <<"SSP/DF">>,
        estado_civil |-> <<"solteiro(a)">>, nome_conjuge |-> <<>>,
        nacionalidade_conjuge |-> <<>>, rg_conjuge |-> <<>>,
        ssp_rg_conjuge |-> <<>>, cpf_conjuge |-> <<>>] >>

\* the lists of n people: n consecutive people starting anywhere in Pessoas
ListFrom(k, n) == [i \in 1..n |-> Pessoas[((i + k - 1) % Len(Pessoas)) + 1]]

Lists(n) == { ListFrom(k, n) : k \in 0..(Len(Pessoas) - 1) }

RecordLists == UNION { Lists(n) : n \in 0..MaxRec }

\* datetime.today() written out by the operation
DataHoje == <<"02 de novembro de 2026">>

ArialRun(t) == Run(t, ArialBoldRed)

\* a table without any key
PlainTable ==
    Tbl(<< << << <<ArialRun(<<"h1">>)>> >>, << Plain(<<"h2">>) >> >>,
           << << Plain(<<"c1">>) >>, << <<ArialRun(<<"c2a">>), Run(<<"c2b">>, NunitoItalicAccent)>> >> >> >>, 2)

(***************************************************************************)
(* preencher_declaracao_visita (declaracao_de_visita.py)                   *)
(***************************************************************************)
\* the model table of a visitor
VisitanteModel ==
    Tbl(<< << << <<ArialRun(<<"Nome: ">>), ArialRun(<<"nome_visitante">>)>> >>,
              << Plain(<<"CPF: ", "cpf_visitante">>) >> >>,
           << << Plain(<<"E-mail: ", "email_visitante">>) >>,
              << Plain(<<"Tel: ", "tel">>) >> >> >>, 2)

\* the number of criteria of the NPS table
NumCriterios == 7

\* the NPS table: a header row and one row per criterion, a label and five marks
NpsTable ==
    Tbl([r \in 1..(NumCriterios + 1) |-> [c \in 1..6 |-> << Plain(<<"-">>) >>]], 6)

\* the context one visitor's table is filled with, lines 134-139
VisitanteCtx(v) ==
    << [key |-> <<"nome_visitante">>, val |-> v.nome],
       [key |-> <<"cpf_visitante">>, val |-> v.cpf],
       [key |-> <<"email_visitante">>, val |-> v.email],
       [key |-> <<"tel">>, val |-> v.tel] >>

\* templates of the declaration
DeclTemplates ==
    { \* the whole declaration
      << P(<<ArialRun(<<"Imovel: ">>), ArialRun(<<"endereco_imovel">>),
             Run(<<", ">> \o KK("data_full"), NunitoItalicAccent)>>),
         VisitanteModel,
         P(Plain(K("visitante_teble"))),
         P(Plain(<<"Corretor ", "NOME DO CORRETOR", ", ", "CRECI DO CORRETOR(A)">> \o K("imob"))),
         P(Plain(K("assinatura_visitante"))),
         NpsTable,
         P(Plain(K("avaliacao_nps"))) >>,
      \* no placeholder at all
      << P(<<ArialRun(<<"a">>), Run(<<"b">>, NunitoItalicAccent)>>),
         PlainTable,
         P(Plain(<<"c">>)) >>,
      \* the model table without its anchor
      << P(Plain(<<"a">>)),
         VisitanteModel,
         P(Plain(<<"b">>)),
         P(Plain(K("assinatura_visitante"))) >>,
      \* the anchor without a table right before it
      << VisitanteModel,
         P(Plain(<<"a">>)),
         P(Plain(K("visitante_teble"))) >> }

\* avaliacao_nps of the payload: the key is absent, None, or a dict of marks
NpsArgs == { [t |-> "absent", nota |-> 0], [t |-> "none", nota |-> 0], [t |-> "dict", nota |-> 3] }

NoArgs ==
    [endereco_imovel |-> <<>>, visitantes |-> <<>>, nome_corretor |-> <<>>, creci_corretor |-> <<>>,
     isImob |-> FALSE, name_imob |-> <<>>, number_creci |-> <<>>,
     avaliacao_nps |-> [t |-> "absent", nota |-> 0],
     contratantes |-> <<>>, corretores |-> <<>>, testemunhas |-> <<>>,
     valor_venda |-> 0, porcentagem_corretagem |-> 0,
     vendedores |-> <<>>, compradores |-> <<>>, pagamentos |-> <<>>,
     vb |-> <<>>, fgts |-> FALSE, relacao |-> NoneV, nomeImob |-> NoneV,
     VARS |-> <<>>, ALIASES |-> <<>>, images_bindings |-> <<>>,
     chart1 |-> FALSE, chart2 |-> [given |-> FALSE, valores |-> <<>>],
     force_font_family |-> ""]

DeclArgs ==
    { [NoArgs EXCEPT !.endereco_imovel = <<"Rua 1">>, !.visitantes = vs,
                     !.nome_corretor = <<"Caio">>, !.creci_corretor = <<"c9">>,
                     !.isImob = im, !.name_imob = <<"ImobX">>, !.number_creci = <<"77">>,
                     !.avaliacao_nps = nps] :
        vs \in RecordLists, im \in BOOLEAN, nps \in NpsArgs }

Returned == [status |-> "returned", error |-> "", y_max |-> 0, series |-> <<>>]

\* line 107
DeclEndereco ==
    /\ op = "preencher_declaracao_visita" /\ pc = "start"
    /\ doc' = substituir_texto_em_todo_documento(doc, <<"endereco_imovel">>, args.endereco_imovel)
    /\ pc' = "endereco"
    /\ UNCHANGED <<op, doc0, args, loc, result>>

\* lines 110-113
DeclData ==
    /\ op = "preencher_declaracao_visita" /\ pc = "endereco"
    /\ doc' = substituir_texto_em_todo_documento(doc, KK("data_full"), DataHoje)
    /\ pc' = "data"
    /\ UNCHANGED <<op, doc0, args, loc, result>>

\* lines 116-139
DeclVisitantes ==
    /\ op = "preencher_declaracao_visita" /\ pc = "data"
    /\ doc' = RepeatTables(doc, K("visitante_teble"), Field(args.visitantes, VisitanteCtx))
    /\ pc' = "visitantes"
    /\ UNCHANGED <<op, doc0, args, loc, result>>

\* lines 141-146
DeclImob ==
    /\ op = "preencher_declaracao_visita" /\ pc = "visitantes"
    /\ doc' = substituir_texto_em_todo_documento(doc, K("imob"),
                IF args.isImob
                THEN <<", (parceiro/associado) da imobiliaria ">> \o args.name_imob
                       \o <<", inscrita no CRECI/DF sob o n. ">> \o args.number_creci
                ELSE <<>>)
    /\ pc' = "imob"
    /\ UNCHANGED <<op, doc0, args, loc, result>>

\* lines 149-163
DeclAssinatura ==
    /\ op = "preencher_declaracao_visita" /\ pc = "imob"
    /\ doc' = Assinaturas(doc, K("assinatura_visitante"),
                          Field(args.visitantes, LAMBDA v : v.nome), "CPF: ",
                          Field(args.visitantes, LAMBDA v : v.cpf))
    /\ pc' = "assinatura"
    /\ UNCHANGED <<op, doc0, args, loc, result>>

\* lines 166-167
DeclCorretor ==
    /\ op = "preencher_declaracao_visita" /\ pc = "assinatura"
    /\ doc' = substituir_texto_em_todo_documento(
                substituir_texto_em_todo_documento(doc, <<"NOME DO CORRETOR">>, args.nome_corretor),
                <<"CRECI DO CORRETOR(A)">>, args.creci_corretor)
    /\ pc' = "corretor"
    /\ UNCHANGED <<op, doc0, args, loc, result>>

\* inserir_avaliacao_nps(doc, avaliacoes) with every criterion given the same
\* mark, lines 24-58: the body it leaves
inserir_avaliacao_nps(body, nota) ==
    LET i  == encontrar_tabela_antes_placeholder(body, K("avaliacao_nps"))
        b1 == IF nota >= 1 /\ nota <= 5
              THEN [body EXCEPT ![i].rows =
                      [r \in 1..Len(body[i].rows) |->
                          IF r >= 2 /\ r <= NumCriterios + 1
                          THEN [body[i].rows[r] EXCEPT ![nota + 1] = << <<Run(<<>>, DefaultFont),
                                                                          Run(<<"X">>, DefaultFont)>> >>]
                          ELSE body[i].rows[r]]]
              ELSE body
        a  == FirstParaWith(b1, K("avaliacao_nps"))
    IN  IF i = 0 THEN body ELSE [b1 EXCEPT ![a].runs = SetParaText(<<>>)]

\* lines 169-170
DeclNps ==
    /\ op = "preencher_declaracao_visita" /\ pc = "corretor"
    /\ LET i == encontrar_tabela_antes_placeholder(doc, K("avaliacao_nps"))
       IN  IF args.avaliacao_nps.t = "absent"
           THEN doc' = doc /\ pc' = "nps" /\ result' = result
           ELSE IF i > 0 /\ args.avaliacao_nps.t = "none"
           THEN \* avaliacoes.get on None
                doc' = doc /\ pc' = "raised" /\ result' = Raised("AttributeError")
           ELSE IF i > 0 /\ args.avaliacao_nps.nota >= 1
                   /\ (Len(doc[i].rows) < NumCriterios + 1 \/ doc[i].cols < args.avaliacao_nps.nota + 1)
           THEN doc' = doc /\ pc' = "raised" /\ result' = Raised("IndexError")
           ELSE /\ doc' = inserir_avaliacao_nps(doc, args.avaliacao_nps.nota)
                /\ pc' = "nps"
                /\ result' = result
    /\ UNCHANGED <<op, doc0, args, loc>>

\* lines 174-177
DeclSave ==
    /\ op = "preencher_declaracao_visita" /\ pc = "nps"
    /\ result' = Returned
    /\ pc' = "done"
    /\ UNCHANGED <<op, doc, doc0, args, loc>>

DeclNext ==
    \/ DeclEndereco
    \/ DeclData
    \/ DeclVisitantes
    \/ DeclImob
    \/ DeclAssinatura
    \/ DeclCorretor
    \/ DeclNps
    \/ DeclSave

DeclInit ==
    /\ op = "preencher_declaracao_visita"
    /\ pc = "start"
    /\ doc0 \in DeclTemplates
    /\ doc = doc0
    /\ args \in DeclArgs
    /\ loc = NoLoc
    /\ result = NoResult

(***************************************************************************)
(* Money and number formatting                                             *)
(***************************************************************************)
DigitChar(d) == <<"0", "1", "2", "3", "4", "5", "6", "7", "8", "9">>[d + 1]

\* the decimal digits of a natural number
RECURSIVE IntDigits(_)
IntDigits(n) == IF n < 10 THEN <<DigitChar(n)>> ELSE IntDigits(n \div 10) \o <<DigitChar(n % 10)>>

\* the "," option of the format specification: groups of three from the right
RECURSIVE Group(_)
Group(ds) ==
    IF Len(ds) <= 3 THEN ds
    ELSE Group(SubSeq(ds, 1, Len(ds) - 3)) \o <<",">> \o SubSeq(ds, Len(ds) - 2, Len(ds))

\* f"{x:,.2f}" of an amount given in hundredths
FmtGrouped(c) ==
    Group(IntDigits(c \div 100)) \o <<".">> \o <<DigitChar((c % 100) \div 10), DigitChar(c % 10)>>

\* f"R$ {x:,.2f}".replace(",", "X").replace(".", ",").replace("X", ".")
FmtReais(c) ==
    Replace(Replace(Replace(<<"R$ ">> \o FmtGrouped(c), <<",">>, <<"X">>), <<".">>, <<",">>), <<"X">>, <<".">>)

\* num2words(valor, lang='pt_BR', to='currency'): the amount in words
valor_extenso(c) == <<"por extenso: ">> \o IntDigits(c)

(***************************************************************************)
(* preencher_contrato (contrato_de_corretagem.py)                          *)
(***************************************************************************)
\* substituir_variaveis_em_runs(doc, contexto), contrato_de_corretagem.py lines 30-42
substituir_variaveis_em_runs_doc(body, ctx) == MapAllParas(body, LAMBDA p : FillPara(p, ctx))

\* lines 121-130
ContratanteCtx(c) ==
    << [key |-> <<"nome_prop">>, val |-> c.nome],
       [key |-> <<"email_prop">>, val |-> c.email],
       [key |-> <<"endereco_prop">>, val |-> c.endereco],
       [key |-> <<"cpf_prop">>, val |-> c.cpf],
       [key |-> <<"tel_prop">>, val |-> c.telefone],
       [key |-> <<"cidade_prop">>, val |-> c.cidade],
       [key |-> <<"cep_prop">>, val |-> c.cep],
       [key |-> <<"uf_prop">>, val |-> c.uf] >>

\* lines 148-154
CorretorCtx(c) ==
    << [key |-> <<"nome_corretor">>, val |-> c.nome],
       [key |-> <<"cnpj_corretor">>, val |-> c.cnpj],
       [key |-> <<"endereco_corretor">>, val |-> c.endereco],
       [key |-> <<"tel_corretor">>, val |-> c.telefone],
       [key |-> <<"creci_corretor">>, val |-> c.creci] >>

ContratanteModel ==
    Tbl(<< << << <<ArialRun(<<"Nome: ">>), ArialRun(<<"nome_prop">>)>> >>,
              << Plain(<<"CPF: ", "cpf_prop">>) >> >>,
           << << Plain(<<"E-mail: ", "email_prop", " Tel: ", "tel_prop">>) >>,
              << Plain(<<"endereco_prop">>),
                 Plain(<<"cidade_prop", "-", "uf_prop", " CEP ", "cep_prop">>) >> >> >>, 2)

ContratadoModel ==
    Tbl(<< << << <<ArialRun(<<"Nome: ">>), ArialRun(<<"nome_corretor">>)>> >>,
              << Plain(<<"CNPJ: ", "cnpj_corretor", " CRECI ", "creci_corretor">>) >> >>,
           << << Plain(<<"endereco_corretor">>) >>,
              << Plain(<<"Tel: ", "tel_corretor">>) >> >> >>, 2)

\* the commission table: a header row, then the model row
ComissaoTable ==
    Tbl(<< << << <<ArialRun(<<"Corretor">>)>> >>, << Plain(<<"CNPJ">>) >>,
              << Plain(<<"%">>) >>, << Plain(<<"Valor">>) >> >>,
           << << <<ArialRun(<<"name_corretor">>)>> >>, << Plain(<<"cnpj_number_comissao">>) >>,
              << Plain(<<"corretagem_percentual">>) >>, << Plain(<<"valor_corretagem">>) >> >> >>, 4)

TestemunhasPara ==
    P(Plain(<<"testemunha_1", " RG ", "rg_1_testemunha", " CPF ", "cpf_1_testemunha", "; ",
              "testemunha_2", " RG ", "rg_2_testemunha", " CPF ", "cpf_2_testemunha">>))

ContratoTemplates ==
    { \* the whole contract
      << P(<<ArialRun(<<"Imovel: ">>), ArialRun(K("endereco_imovel"))>>),
         ContratanteModel,
         P(Plain(K("contratante_table"))),
         ContratadoModel,
         P(Plain(K("contratado_table"))),
         P(<<ArialRun(<<"nome_prop", " contrata ">>), Run(<<"nome_corretor">>, NunitoItalicAccent),
             Run(<<" por ">> \o K("valor_comissao") \o <<" (">> \o K("valor_comissao_texto") \o <<")">>,
                 DefaultFont)>>),
         ComissaoTable,
         P(Plain(K("comissao_table"))),
         P(Plain(K("data"))),
         P(Plain(K("assinatura_prop"))),
         P(Plain(K("assinatura_corretor"))),
         TestemunhasPara >>,
      \* no placeholder at all
      << P(<<ArialRun(<<"a">>), Run(<<"b">>, NunitoItalicAccent)>>),
         PlainTable,
         P(Plain(<<"c">>)) >>,
      \* the model tables and the commission table without their anchors
      << ContratanteModel,
         P(Plain(<<"a">>)),
         ContratadoModel,
         P(Plain(<<"b">>)),
         ComissaoTable,
         P(Plain(<<"c">>)),
         P(Plain(K("assinatura_prop"))),
         TestemunhasPara >> }

\* amounts in hundredths and percentages for which the products are exact
ContratoArgs ==
    { [NoArgs EXCEPT !.endereco_imovel = <<"Rua 1">>, !.contratantes = cs, !.corretores = ks,
                     !.testemunhas = ListFrom(2, t),
                     !.valor_venda = 50000000, !.porcentagem_corretagem = 5] :
        cs \in RecordLists, ks \in { ListFrom(1, n) : n \in 0..MaxRec }, t \in 0..MaxTestemunhas }

\* line 103
ContratoEndereco ==
    /\ op = "preencher_contrato" /\ pc = "start"
    /\ doc' = substituir_texto_em_todo_documento(doc, K("endereco_imovel"), args.endereco_imovel)
    /\ pc' = "endereco"
    /\ UNCHANGED <<op, doc0, args, loc, result>>

\* lines 105-130
ContratoContratantes ==
    /\ op = "preencher_contrato" /\ pc = "endereco"
    /\ doc' = RepeatTables(doc, K("contratante_table"), Field(args.contratantes, ContratanteCtx))
    /\ pc' = "contratantes"
    /\ UNCHANGED <<op, doc0, args, loc, result>>

\* lines 132-154
ContratoContratados ==
    /\ op = "preencher_contrato" /\ pc = "contratantes"
    /\ doc' = RepeatTables(doc, K("contratado_table"), Field(args.corretores, CorretorCtx))
    /\ pc' = "contratados"
    /\ UNCHANGED <<op, doc0, args, loc, result>>

\* lines 156-170: the first contratante and the first corretor, document-wide
ContratoPrimeiros ==
    /\ op = "preencher_contrato" /\ pc = "contratados"
    /\ IF args.contratantes = <<>> \/ args.corretores = <<>>
       THEN \* contratantes[0] or corretores[0] of an empty list
            doc' = doc /\ pc' = "raised" /\ result' = Raised("IndexError")
       ELSE /\ doc' = substituir_variaveis_em_runs_doc(doc,
                         ContratanteCtx(args.contratantes[1]) \o CorretorCtx(args.corretores[1]))
            /\ pc' = "primeiros"
            /\ result' = result
    /\ UNCHANGED <<op, doc0, args, loc>>

\* line 172
valor_comissao(a) == (a.valor_venda * a.porcentagem_corretagem) \div 100

\* lines 172-176
ContratoValorComissao ==
    /\ op = "preencher_contrato" /\ pc = "primeiros"
    /\ doc' = substituir_texto_em_todo_documento(
                substituir_texto_em_todo_documento(doc, K("valor_comissao"), FmtReais(valor_comissao(args))),
                K("valor_comissao_texto"), valor_extenso(valor_comissao(args)))
    /\ pc' = "valor_comissao"
    /\ UNCHANGED <<op, doc0, args, loc, result>>

\* lines 184-189: the text of a commission cell
ComissaoTexto(texto, c, comissao) ==
    Replace(Replace(Replace(Replace(texto,
        <<"name_corretor">>, c.nome),
        <<"cnpj_number_comissao">>, c.cnpj),
        <<"corretagem_percentual">>, IntDigits(c.participacao) \o <<"%">>),
        <<"valor_corretagem">>, FmtReais((comissao * c.participacao) \div 100))

\* lines 181-190: one row per corretor after the rows the table has
RECURSIVE ComissaoRows(_, _, _, _)
ComissaoRows(tbl, modelo, cs, comissao) ==
    IF cs = <<>> THEN tbl
    ELSE ComissaoRows(
            [tbl EXCEPT !.rows = Append(tbl.rows,
                [i \in 1..tbl.cols |-> SetCellText(ComissaoTexto(CellText(modelo[i]), Head(cs), comissao))])],
            modelo, Tail(cs), comissao)

\* lines 178-195
ContratoComissao ==
    /\ op = "preencher_contrato" /\ pc = "valor_comissao"
    /\ LET i == encontrar_tabela_antes_placeholder(doc, K("comissao_table"))
       IN  IF i = 0
           THEN doc' = doc /\ pc' = "comissao" /\ result' = result
           ELSE IF Len(doc[i].rows) < 2
                   \/ (args.corretores # <<>> /\ Len(doc[i].rows[2]) < doc[i].cols)
           THEN \* tabela_com.rows[1] or linha_modelo.cells[i]
                doc' = doc /\ pc' = "raised" /\ result' = Raised("IndexError")
           ELSE LET t1 == ComissaoRows(doc[i], doc[i].rows[2], args.corretores, valor_comissao(args))
                    b1 == [doc EXCEPT ![i] = [t1 EXCEPT !.rows = RemoveAt(t1.rows, 2)]]
                IN  /\ doc' = RemoveAt(b1, FirstParaWith(b1, K("comissao_table")))
                    /\ pc' = "comissao"
                    /\ result' = result
    /\ UNCHANGED <<op, doc0, args, loc>>

\* lines 197-200
ContratoData ==
    /\ op = "preencher_contrato" /\ pc = "comissao"
    /\ doc' = substituir_texto_em_todo_documento(doc, K("data"), DataHoje)
    /\ pc' = "data"
    /\ UNCHANGED <<op, doc0, args, loc, result>>

\* lines 203-217
ContratoAssinaturaProp ==
    /\ op = "preencher_contrato" /\ pc = "data"
    /\ doc' = Assinaturas(doc, K("assinatura_prop"),
                          Field(args.contratantes, LAMBDA c : c.nome), "CPF: ",
                          Field(args.contratantes, LAMBDA c : c.cpf))
    /\ pc' = "assinatura_prop"
    /\ UNCHANGED <<op, doc0, args, loc, result>>

\* lines 219-233
ContratoAssinaturaCorretor ==
    /\ op = "preencher_contrato" /\ pc = "assinatura_prop"
    /\ doc' = Assinaturas(doc, K("assinatura_corretor"),
                          Field(args.corretores, LAMBDA c : c.nome), "CNPJ: ",
                          Field(args.corretores, LAMBDA c : c.cnpj))
    /\ pc' = "assinatura_corretor"
    /\ UNCHANGED <<op, doc0, args, loc, result>>

\* lines 237-243: the six substitutions, in the order of the code
TestemunhasContrato(body, ts) ==
    LET s1 == substituir_texto_em_todo_documento(body, <<"testemunha_1">>, ts[1].nome)
        s2 == substituir_texto_em_todo_documento(s1, <<"rg_1_testemunha">>, ts[1].rg)
        s3 == substituir_texto_em_todo_documento(s2, <<"cpf_1_testemunha">>, ts[1].cpf)
        s4 == substituir_texto_em_todo_documento(s3, <<"testemunha_2">>, ts[2].nome)
        s5 == substituir_texto_em_todo_documento(s4, <<"rg_2_testemunha">>, ts[2].rg)
    IN  substituir_texto_em_todo_documento(s5, <<"cpf_2_testemunha">>, ts[2].cpf)

\* lines 236-243
ContratoTestemunhas ==
    /\ op = "preencher_contrato" /\ pc = "assinatura_corretor"
    /\ doc' = IF Len(args.testemunhas) >= 2 THEN TestemunhasContrato(doc, args.testemunhas) ELSE doc
    /\ pc' = "testemunhas"
    /\ UNCHANGED <<op, doc0, args, loc, result>>

\* lines 245-248
ContratoSave ==
    /\ op = "preencher_contrato" /\ pc = "testemunhas"
    /\ result' = Returned
    /\ pc' = "done"
    /\ UNCHANGED <<op, doc, doc0, args, loc>>

ContratoNext ==
    \/ ContratoEndereco
    \/ ContratoContratantes
    \/ ContratoContratados
    \/ ContratoPrimeiros
    \/ ContratoValorComissao
    \/ ContratoComissao
    \/ ContratoData
    \/ ContratoAssinaturaProp
    \/ ContratoAssinaturaCorretor
    \/ ContratoTestemunhas
    \/ ContratoSave

ContratoInit ==
    /\ op = "preencher_contrato"
    /\ pc = "start"
    /\ doc0 \in ContratoTemplates
    /\ doc = doc0
    /\ args \in ContratoArgs
    /\ loc = NoLoc
    /\ result = NoResult

(***************************************************************************)
(* preencher_promessa (api/promessa_compra_e_venda.py)                     *)
(***************************************************************************)
\* str.lower() on the marital states of the inputs
Lower(t) == [i \in 1..Len(t) |-> IF t[i] = "Casado(a)" THEN "casado(a)" ELSE t[i]]

\* lines 160-166: the spouse is written out
TemConjuge(q) ==
    /\ Lower(q.estado_civil) = <<"casado(a)">>
    /\ q.nome_conjuge # <<>> /\ q.nacionalidade_conjuge # <<>> /\ q.rg_conjuge # <<>>
    /\ q.ssp_rg_conjuge # <<>> /\ q.cpf_conjuge # <<>>

\* lines 150-172: the runs one person adds
PessoaRuns(p, q, idx, total) ==
    LET r0 == IF idx = 0 THEN p
              ELSE IF idx = total - 1 THEN AddRun(p, <<" e ">>) ELSE AddRun(p, <<", ">>)
        r1 == AddBoldRun(r0, q.nome)
        r2 == AddRun(r1, <<", ">> \o q.nacionalidade \o <<", portador(a) da carteira de identidade n. ">>
                         \o q.rg_number \o <<", expedido pela ">> \o q.ssp_rg
                         \o <<", inscrito(a) no CPF sob o n. ">> \o q.cpf \o <<", ">>
                         \o q.estado_civil \o <<", ">>)
        r3 == IF TemConjuge(q)
              THEN AddRun(AddBoldRun(AddRun(r2, <<"com ">>), q.nome_conjuge),
                          <<", ">> \o q.nacionalidade_conjuge
                          \o <<", portador(a) da carteira de identidade n. ">> \o q.rg_conjuge
                          \o <<", expedido pela ">> \o q.ssp_rg_conjuge
                          \o <<", inscrito(a) no CPF sob o n. ">> \o q.cpf_conjuge \o <<", ">>)
              ELSE r2
    IN  AddRun(r3, <<"residente(s) e domiciliado(a)(s) no endereco ">> \o q.endereco
                   \o <<", telefone ">> \o q.telefone)

RECURSIVE PessoasRuns(_, _, _)
PessoasRuns(p, lista, idx) ==
    IF idx >= Len(lista) THEN p
    ELSE PessoasRuns(PessoaRuns(p, lista[idx + 1], idx, Len(lista)), lista, idx + 1)

\* montar_texto_pessoa(doc, lista_pessoas, paragrafo, tipo), lines 147-179
montar_texto_pessoa(p, lista_pessoas, tipo) ==
    AddBoldRun(AddRun(PessoasRuns(p, lista_pessoas, 0), <<", doravante denominado(a)(s) simplesmente, ">>),
               IF tipo = "vendedores" THEN <<"PROMITENTE(S) VENDEDOR(A)(ES).">>
               ELSE <<"PROMISSARIO(A)(S) COMPRADOR(A)(ES).">>)

\* the body of the loops of lines 244-255 and 258-272 for one paragraph
PromessaPara(p, a) ==
    IF Contains(ParaText(p), K("vendedores"))
    THEN montar_texto_pessoa(SetParaText(<<>>), a.vendedores, "vendedores")
    ELSE IF Contains(ParaText(p), K("compradores"))
    THEN montar_texto_pessoa(SetParaText(<<>>), a.compradores, "compradores")
    ELSE gerar_texto_isimob(
            gerar_texto_relacao_movies(
                gerar_texto_fgts(substituir_variaveis_em_runs(p, a.vb), a.fgts),
                a.relacao),
            a.isImob, a.nomeImob)

\* payments: juros is absent from the dict, None, or a string
Pagamentos ==
    << [tipo |-> <<"Sinal">>, vencimento |-> <<"10/11/2026">>, valor |-> 1000000,
        forma_pagamento |-> <<"PIX">>, juros |-> [t |-> "absent", s |-> <<>>]],
       [tipo |-> <<"Parcela com ", "juros">>, vencimento |-> <<"10/12/2026">>, valor |-> 250050,
        forma_pagamento |-> <<"boleto">>, juros |-> [t |-> "str", s |-> <<"2%">>]],
       [tipo |-> <<"Saldo">>, vencimento |-> <<"10/01/2027">>, valor |-> 123456789,
        forma_pagamento |-> <<"financiamento">>, juros |-> [t |-> "none", s |-> <<>>]] >>

PagamentoLists ==
    { [i \in 1..n |-> Pagamentos[((i + k - 1) % Len(Pagamentos)) + 1]] :
        n \in 0..MaxRec, k \in 0..(Len(Pagamentos) - 1) }

\* the size of the run of a payment cell, Pt(9)
PagFontSize == 9

\* lines 31-36: the text of a payment cell
PagTexto(texto, pg) ==
    Replace(Replace(Replace(Replace(Replace(texto,
        <<"tipo">>, pg.tipo),
        <<"vencimento">>, pg.vencimento),
        <<"valor">>, FmtReais(pg.valor)),
        <<"forma">>, pg.forma_pagamento),
        <<"juros">>, IF pg.juros.t = "absent" THEN <<"0%">> ELSE pg.juros.s)

\* lines 39-42: the cell is emptied and gets a run of the text
PagCell(texto) == << <<Run(<<>>, DefaultFont), Run(texto, [DefaultFont EXCEPT !.size = PagFontSize])>> >>

\* lines 28-42: one row per payment after the rows the table has
RECURSIVE PagRows(_, _, _)
PagRows(tbl, modelo, pgs) ==
    IF pgs = <<>> THEN tbl
    ELSE PagRows([tbl EXCEPT !.rows = Append(tbl.rows,
                     [i \in 1..tbl.cols |-> PagCell(PagTexto(CellText(modelo[i]), Head(pgs)))])],
                 modelo, Tail(pgs))

\* preencher_pagamento_table(doc, pagamentos), lines 20-51: the body it leaves
preencher_pagamento_table(body, pagamentos) ==
    LET i  == FirstTable(body)
        t1 == PagRows(body[i], body[i].rows[2], pagamentos)
        b1 == [body EXCEPT ![i] = [t1 EXCEPT !.rows = RemoveAt(t1.rows, 2)]]
        a  == FirstParaWith(b1, K("pagamento_table"))
    IN  IF i = 0 THEN body
        ELSE IF a = 0 THEN b1 ELSE RemoveAt(b1, a)

\* the payment table: a header row, then the model row
PagTable ==
    Tbl(<< << << <<ArialRun(<<"Tipo">>)>> >>, << Plain(<<"Vencimento">>) >>, << Plain(<<"Valor">>) >>,
              << Plain(<<"Forma">>) >>, << Plain(<<"Juros">>) >> >>,
           << << <<ArialRun(<<"tipo">>)>> >>, << Plain(<<"vencimento">>) >>, << Plain(<<"valor">>) >>,
              << Plain(<<"forma">>) >>, << Plain(<<"juros">>) >> >> >>, 5)

PromessaTemplates ==
    { \* the whole promise
      << P(Plain(K("vendedores"))),
         P(Plain(K("compradores"))),
         P(<<ArialRun(<<"Imovel ">> \o K("endereco_imovel")),
             Run(<<" livre">> \o K("gravame") \o <<" por ">> \o K("valor_imovel"), NunitoItalicAccent)>>),
         P(Plain(K("fgts"))),
         P(Plain(<<"honorarios ">> \o KK("isImob") \o <<".">>)),
         PagTable,
         P(Plain(K("pagamento_table"))),
         P(Plain(K("assinatura_vendedor"))),
         P(Plain(K("assinatura_comprador"))),
         P(<<ArialRun(<<"testemunha_1", " CPF ", "cpf_1_testemunha">>),
             ArialRun(<<"testemunha_2", " CPF ", "cpf_2_testemunha">>)>>) >>,
      \* no placeholder at all, with a table
      << P(<<ArialRun(<<"a">>), Run(<<"b">>, NunitoItalicAccent)>>),
         PlainTable,
         P(Plain(<<"c">>)) >>,
      \* no placeholder at all, no table
      << P(<<ArialRun(<<"a">>), Run(<<"b">>, NunitoItalicAccent)>>),
         P(Plain(<<"c">>)) >>,
      \* no placeholder at all, a table of one row
      << P(Plain(<<"a">>)),
         Tbl(<< << << Plain(<<"h1">>) >>, << Plain(<<"h2">>) >> >> >>, 2) >>,
      \* the payment table without its anchor
      << P(Plain(<<"a">>)),
         PagTable,
         P(Plain(<<"b">>)),
         P(Plain(K("assinatura_vendedor"))) >>,
      \* the payment table is not the first table of the document
      << PlainTable,
         P(Plain(<<"a">>)),
         PagTable,
         P(Plain(K("pagamento_table"))) >> }

\* dados_imovel as the paragraph functions see it
ImovelCtxs ==
    { [vb |-> VariaveisBold(StrV(<<"Rua">>), StrV(<<"pix">>), GravameInfo, StrV(<<"1.000,00">>)),
       fgts |-> TRUE, relacao |-> StrV(<<"sofa">>), isImob |-> TRUE, nomeImob |-> StrV(<<"ImobX">>)],
      [vb |-> VariaveisBold(StrV(<<"Rua">>), NoneV, NoneV, StrV(<<>>)),
       fgts |-> FALSE, relacao |-> NoneV, isImob |-> FALSE, nomeImob |-> NoneV] }

PromessaArgs ==
    { [NoArgs EXCEPT !.vendedores = ListFrom(0, n), !.compradores = ListFrom(1, MaxRec - n),
                     !.pagamentos = pgs, !.testemunhas = ListFrom(2, t),
                     !.vb = im.vb, !.fgts = im.fgts, !.relacao = im.relacao,
                     !.isImob = im.isImob, !.nomeImob = im.nomeImob] :
        n \in 0..MaxRec, pgs \in PagamentoLists, t \in 0..MaxTestemunhas, im \in ImovelCtxs }

\* lines 244-255
PromessaParagraphs ==
    /\ op = "preencher_promessa" /\ pc = "start"
    /\ doc' = [i \in 1..Len(doc) |->
                 IF doc[i].kind = "p" THEN [doc[i] EXCEPT !.runs = PromessaPara(doc[i].runs, args)]
                 ELSE doc[i]]
    /\ pc' = "paragraphs"
    /\ UNCHANGED <<op, doc0, args, loc, result>>

\* lines 258-272
PromessaTables ==
    /\ op = "preencher_promessa" /\ pc = "paragraphs"
    /\ doc' = [i \in 1..Len(doc) |->
                 IF doc[i].kind = "tbl" THEN MapTableParas(doc[i], LAMBDA p : PromessaPara(p, args))
                 ELSE doc[i]]
    /\ pc' = "tables"
    /\ UNCHANGED <<op, doc0, args, loc, result>>

\* line 274
PromessaPagamentos ==
    /\ op = "preencher_promessa" /\ pc = "tables"
    /\ LET i == FirstTable(doc)
       IN  IF i > 0 /\ Len(doc[i].rows) < 2
           THEN \* tabela_pag.rows[1]
                doc' = doc /\ pc' = "raised" /\ result' = Raised("IndexError")
           ELSE IF i > 0 /\ doc[i].cols > 0
                   /\ \E k \in 1..Len(args.pagamentos) : args.pagamentos[k].juros.t = "none"
           THEN \* str.replace("juros", None)
                doc' = doc /\ pc' = "raised" /\ result' = Raised("TypeError")
           ELSE /\ doc' = preencher_pagamento_table(doc, args.pagamentos)
                /\ pc' = "pagamentos"
                /\ result' = result
    /\ UNCHANGED <<op, doc0, args, loc>>

\* lines 277-291
PromessaAssinaturaVendedor ==
    /\ op = "preencher_promessa" /\ pc = "pagamentos"
    /\ doc' = Assinaturas(doc, K("assinatura_vendedor"),
                          Field(args.vendedores, LAMBDA v : v.nome), "CPF: ",
                          Field(args.vendedores, LAMBDA v : v.cpf))
    /\ pc' = "assinatura_vendedor"
    /\ UNCHANGED <<op, doc0, args, loc, result>>

\* lines 294-308
PromessaAssinaturaComprador ==
    /\ op = "preencher_promessa" /\ pc = "assinatura_vendedor"
    /\ doc' = Assinaturas(doc, K("assinatura_comprador"),
                          Field(args.compradores, LAMBDA c : c.nome), "CPF: ",
                          Field(args.compradores, LAMBDA c : c.cpf))
    /\ pc' = "assinatura_comprador"
    /\ UNCHANGED <<op, doc0, args, loc, result>>

\* the local substituir_texto_em_todo_documento of lines 311-324: in each
\* paragraph whose text holds the key, the runs that hold it
SubstituirEmRuns(body, antigo, novo) ==
    MapAllParas(body, LAMBDA p : IF Contains(ParaText(p), antigo)
                                  THEN FillPara(p, << [key |-> antigo, val |-> novo] >>)
                                  ELSE p)

\* lines 326-330
TestemunhasPromessa(body, ts) ==
    SubstituirEmRuns(
        SubstituirEmRuns(
            SubstituirEmRuns(
                SubstituirEmRuns(body, <<"testemunha_1">>, ts[1].nome),
                <<"cpf_1_testemunha">>, ts[1].cpf),
            <<"testemunha_2">>, ts[2].nome),
        <<"cpf_2_testemunha">>, ts[2].cpf)

\* lines 310-330
PromessaTestemunhas ==
    /\ op = "preencher_promessa" /\ pc = "assinatura_comprador"
    /\ doc' = IF Len(args.testemunhas) >= 2 THEN TestemunhasPromessa(doc, args.testemunhas) ELSE doc
    /\ pc' = "testemunhas"
    /\ UNCHANGED <<op, doc0, args, loc, result>>

\* lines 332-335
PromessaSave ==
    /\ op = "preencher_promessa" /\ pc = "testemunhas"
    /\ result' = Returned
    /\ pc' = "done"
    /\ UNCHANGED <<op, doc, doc0, args, loc>>

PromessaNext ==
    \/ PromessaParagraphs
    \/ PromessaTables
    \/ PromessaPagamentos
    \/ PromessaAssinaturaVendedor
    \/ PromessaAssinaturaComprador
    \/ PromessaTestemunhas
    \/ PromessaSave

PromessaInit ==
    /\ op = "preencher_promessa"
    /\ pc = "start"
    /\ doc0 \in PromessaTemplates
    /\ doc = doc0
    /\ args \in PromessaArgs
    /\ loc = NoLoc
    /\ result = NoResult

(***************************************************************************)
(* render_laudo (app/laudo_pptx.py)                                        *)
(***************************************************************************)
\* shapes of a slide: a text box, a table (graphic frame), a group, a picture
Box(tf) == [kind |-> "box", tf |-> tf, rows |-> <<>>, shapes |-> <<>>, key |-> <<>>, size |-> ""]

TableShape(rows) == [kind |-> "table", tf |-> <<>>, rows |-> rows, shapes |-> <<>>, key |-> <<>>, size |-> ""]

GroupShape(shapes) == [kind |-> "group", tf |-> <<>>, rows |-> <<>>, shapes |-> shapes, key |-> <<>>, size |-> ""]

\* the picture add_picture puts on the slide for an image key: with the fixed
\* size of its binding, or fitted into the box of the slot
Picture(key, size) == [kind |-> "pic", tf |-> <<>>, rows |-> <<>>, shapes |-> <<>>, key |-> key, size |-> size]

\* the text _find_img_keys looks at, line 300
FrameText(tf) == Join([i \in 1..Len(tf) |-> ParaText(tf[i])])

\* _find_img_keys(shape, img_keys_set), lines 293-306: the key of the slot, <<>> if none
find_img_keys(shape, img_keys_set) ==
    LET m == RexFullMatch(Strip(FrameText(shape.tf)))
    IN  IF shape.kind = "box" /\ m.ok /\ m.key \in img_keys_set THEN m.key ELSE <<>>

\* _walk(slide, shape, images_to_place, get_value_fn, img_keys_set), lines 335-358:
\* the shape it leaves
RECURSIVE walk(_, _, _, _)
walk(shape, VARS, ALIASES, img_keys_set) ==
    IF shape.kind = "table"
    THEN [shape EXCEPT !.rows =
            [r \in 1..Len(shape.rows) |->
                [c \in 1..Len(shape.rows[r]) |->
                    replace_text_in_textframe(shape.rows[r][c], VARS, ALIASES, img_keys_set)]]]
    ELSE IF shape.kind = "box"
    THEN IF find_img_keys(shape, img_keys_set) # <<>> THEN shape
         ELSE [shape EXCEPT !.tf = replace_text_in_textframe(shape.tf, VARS, ALIASES, img_keys_set)]
    ELSE IF shape.kind = "group"
    THEN [shape EXCEPT !.shapes =
            [i \in 1..Len(shape.shapes) |-> walk(shape.shapes[i], VARS, ALIASES, img_keys_set)]]
    ELSE shape

\* the slots _walk appends to images_to_place, in the order of the walk: the
\* path of the shape (its index, within its groups) and its key
RECURSIVE Slots(_, _, _)
Slots(shapes, path, img_keys_set) ==
    Join([i \in 1..Len(shapes) |->
            IF shapes[i].kind = "group"
            THEN Slots(shapes[i].shapes, Append(path, i), img_keys_set)
            ELSE IF find_img_keys(shapes[i], img_keys_set) # <<>>
            THEN << [path |-> Append(path, i), key |-> find_img_keys(shapes[i], img_keys_set)] >>
            ELSE <<>>])

\* lines 613-616 on the shape at a path: the texts of its runs are emptied
RECURSIVE ClearAt(_, _)
ClearAt(shapes, path) ==
    [i \in 1..Len(shapes) |->
        IF i # Head(path) THEN shapes[i]
        ELSE IF Len(path) = 1
        THEN [shapes[i] EXCEPT !.tf = [k \in 1..Len(shapes[i].tf) |-> ClearRuns(shapes[i].tf[k])]]
        ELSE [shapes[i] EXCEPT !.shapes = ClearAt(shapes[i].shapes, Tail(path))]]

\* img_keys, lines 569-598: the keys of the explicit bindings and of the chart slots
ImgKeys(a) ==
    {a.images_bindings[i].key : i \in 1..Len(a.images_bindings)}
        \cup (IF a.chart1 THEN {<<"grafico_01">>} ELSE {})
        \cup (IF a.chart2.given THEN {<<"grafico_02">>} ELSE {})

\* IMG_VARS.get(key): a chart image, or the explicit binding
ImgInfo(a, key) ==
    IF (a.chart1 /\ key = <<"grafico_01">>) \/ (a.chart2.given /\ key = <<"grafico_02">>)
    THEN [key |-> key, t |-> "tuple", exists |-> TRUE]
    ELSE a.images_bindings[CHOOSE i \in 1..Len(a.images_bindings) : a.images_bindings[i].key = key]

\* lines 608-629: the slots are cleared and their pictures added, in order; the
\* first image file that does not exist stops the loop
RECURSIVE PlaceImages(_, _, _)
PlaceImages(shapes, slots, a) ==
    IF slots = <<>> THEN [shapes |-> shapes, ok |-> TRUE]
    ELSE LET info    == ImgInfo(a, Head(slots).key)
             cleared == ClearAt(shapes, Head(slots).path)
         IN  IF ~info.exists THEN [shapes |-> cleared, ok |-> FALSE]
             ELSE PlaceImages(Append(cleared, Picture(info.key, IF info.t = "tuple" THEN "fixed" ELSE "fit")),
                              Tail(slots), a)

SetFontName(tf, name) ==
    [i \in 1..Len(tf) |-> [j \in 1..Len(tf[i]) |-> [tf[i][j] EXCEPT !.font.name = name]]]

\* lines 634-645: the text boxes of the slide and those right inside its groups
ForceFont(shapes, name) ==
    [i \in 1..Len(shapes) |->
        IF shapes[i].kind = "box" THEN [shapes[i] EXCEPT !.tf = SetFontName(shapes[i].tf, name)]
        ELSE IF shapes[i].kind = "group"
        THEN [shapes[i] EXCEPT !.shapes =
                [k \in 1..Len(shapes[i].shapes) |->
                    IF shapes[i].shapes[k].kind = "box"
                    THEN [shapes[i].shapes[k] EXCEPT !.tf = SetFontName(shapes[i].shapes[k].tf, name)]
                    ELSE shapes[i].shapes[k]]]
        ELSE shapes[i]]

Frame(runs) == << runs >>

LaudoTemplates ==
    { \* text tokens, image slots, a table and groups
      << Box(Frame(<<ArialRun(<<"Laudo ">> \o KK("nome")), Run(KK("livre"), NunitoItalicAccent)>>)),
         Box(Frame(<<ArialRun(<<" ">> \o KK("grafico_01"))>>)),
         TableShape(<< << Frame(<<ArialRun(KK("apelido"))>>), Frame(Plain(<<"x">>)) >> >>),
         GroupShape(<< Box(Frame(Plain(KK("foto")))),
                       GroupShape(<< Box(Frame(<<ArialRun(KK("nome"))>>)) >>) >>),
         Box(Frame(Plain(KK("grafico_02")))) >>,
      \* no placeholder at all
      << Box(Frame(<<ArialRun(<<"a">>), Run(<<"b">>, NunitoItalicAccent)>>)),
         TableShape(<< << Frame(<<ArialRun(<<"c">>)>>) >> >>),
         GroupShape(<< Box(Frame(Plain(<<"d">>))) >>) >>,
      \* no placeholder at all, every run in Nunito already
      << Box(Frame(<<Run(<<"a">>, NunitoItalicAccent)>>)) >>,
      \* an image key next to other text, in a run of its own
      << Box(Frame(<<ArialRun(<<"Foto: ">>), ArialRun(KK("foto"))>>)),
         Box(Frame(<<ArialRun(KK("foto"))>>)) >>,
      \* a chart key that also has a text value, in a run of its own next to
      \* other text and alone in a table cell; a theme-coloured token
      << Box(Frame(<<Run(<<"Sr. ">> \o KK("nome"), NunitoItalicAccent),
                     ArialRun(KK("grafico_01"))>>)),
         TableShape(<< << Frame(<<ArialRun(KK("grafico_01"))>>),
                          Frame(<<Run(KK("nome"), NunitoItalicAccent)>>) >> >>) >> }

\* images_bindings: a path with a size, a path alone, or something else; the
\* file of the path exists or not
Bindings ==
    { <<>>,
      << [key |-> <<"foto">>, t |-> "tuple", exists |-> TRUE] >>,
      << [key |-> <<"foto">>, t |-> "str", exists |-> FALSE] >>,
      << [key |-> <<"foto">>, t |-> "invalid", exists |-> FALSE] >> }

LaudoArgs ==
    { [NoArgs EXCEPT !.VARS = c.VARS, !.ALIASES = c.ALIASES, !.images_bindings = b,
                     !.chart1 = c1,
                     !.chart2 = [given |-> n > 0, valores |-> [i \in 1..n |-> RawNum(500000)]],
                     !.force_font_family = f] :
        c \in LaudoCtxs, b \in Bindings, c1 \in BOOLEAN, n \in {0, NumMeses - 1, NumMeses},
        f \in {"Nunito", ""} }

LaudoReturned(pdf_ok) ==
    [status |-> "returned", error |-> "", y_max |-> 0, series |-> <<>>, pdf_path |-> pdf_ok]

\* lines 542-564: the chart images are generated
LaudoCharts ==
    /\ op = "render_laudo" /\ pc = "start"
    /\ IF args.chart2.given /\ ~MensalLenOk(args.chart2.valores)
       THEN pc' = "raised" /\ result' = Raised("ValueError")
       ELSE pc' = "charts" /\ result' = result
    /\ UNCHANGED <<op, doc, doc0, args, loc>>

\* lines 567-598: the image bindings are checked
LaudoBindings ==
    /\ op = "render_laudo" /\ pc = "charts"
    /\ IF \E i \in 1..Len(args.images_bindings) : args.images_bindings[i].t = "invalid"
       THEN pc' = "raised" /\ result' = Raised("ValueError")
       ELSE pc' = "bindings" /\ result' = result
    /\ UNCHANGED <<op, doc, doc0, args, loc>>

\* lines 601-605
LaudoWalk ==
    /\ op = "render_laudo" /\ pc = "bindings"
    /\ doc' = [i \in 1..Len(doc) |-> walk(doc[i], args.VARS, args.ALIASES, ImgKeys(args))]
    /\ loc' = [NoLoc EXCEPT !.to_place = Slots(doc, <<>>, ImgKeys(args))]
    /\ pc' = "walk"
    /\ UNCHANGED <<op, doc0, args, result>>

\* lines 608-629
LaudoPlaceImages ==
    /\ op = "render_laudo" /\ pc = "walk"
    /\ LET r == PlaceImages(doc, loc.to_place, args)
       IN  /\ doc' = r.shapes
           /\ IF r.ok THEN pc' = "images" /\ result' = result
              ELSE pc' = "raised" /\ result' = Raised("FileNotFoundError")
    /\ UNCHANGED <<op, doc0, args, loc>>

\* lines 632-648
LaudoForceFont ==
    /\ op = "render_laudo" /\ pc = "images"
    /\ doc' = IF args.force_font_family # "" THEN ForceFont(doc, args.force_font_family) ELSE doc
    /\ pc' = "font"
    /\ UNCHANGED <<op, doc0, args, loc, result>>

\* prs.save moved in front of the image loop
LaudoSave_BeforeImages ==
    /\ op = "render_laudo" /\ pc = "walk"
    /\ pc' = "saved"
    /\ UNCHANGED <<op, doc, doc0, args, loc, result>>

\* lines 651-652
LaudoSave ==
    /\ op = "render_laudo" /\ pc = "font"
    /\ pc' = "saved"
    /\ UNCHANGED <<op, doc, doc0, args, loc, result>>

\* lines 655-663: the renderer gives a PDF or not
LaudoPdf ==
    /\ op = "render_laudo" /\ pc = "saved"
    /\ \E pdf_ok \in BOOLEAN : result' = LaudoReturned(pdf_ok)
    /\ pc' = "done"
    /\ UNCHANGED <<op, doc, doc0, args, loc>>

LaudoNext ==
    \/ LaudoCharts
    \/ LaudoBindings
    \/ LaudoWalk
    \/ LaudoPlaceImages
    \/ LaudoForceFont
    \/ LaudoSave
    \/ LaudoPdf

LaudoInit ==
    /\ op = "render_laudo"
    /\ pc = "start"
    /\ doc0 \in LaudoTemplates
    /\ doc = doc0
    /\ args \in LaudoArgs
    /\ loc = NoLoc
    /\ result = NoResult

Init ==
    \/ DeclInit
    \/ ContratoInit
    \/ PromessaInit
    \/ LaudoInit

Next ==
    \/ DeclNext
    \/ ContratoNext
    \/ PromessaNext
    \/ LaudoNext

Spec == Init /\ [][Next]_vars

(***************************************************************************)
(* Claims about the generation operations (checked under Spec)             *)
(***************************************************************************)
DocxOps == {"preencher_declaracao_visita", "preencher_contrato", "preencher_promessa"}

\* the atoms a placeholder of any operation is written with
KeyAtoms ==
    { "{", "}", "endereco_imovel", "nome_visitante", "cpf_visitante", "email_visitante", "tel",
      "NOME DO CORRETOR", "CRECI DO CORRETOR(A)",
      "nome_prop", "email_prop", "endereco_prop", "cpf_prop", "tel_prop", "cidade_prop", "cep_prop",
      "uf_prop", "nome_corretor", "cnpj_corretor", "endereco_corretor", "tel_corretor",
      "creci_corretor", "name_corretor", "cnpj_number_comissao", "corretagem_percentual",
      "valor_corretagem", "testemunha_1", "rg_1_testemunha", "cpf_1_testemunha", "testemunha_2",
      "rg_2_testemunha", "cpf_2_testemunha", "tipo", "vencimento", "valor", "forma", "juros" }

PlainText(t) == \A i \in 1..Len(t) : t[i] \notin KeyAtoms

PlainFrame(tf) == \A i \in 1..Len(tf) : \A j \in 1..Len(tf[i]) : PlainText(tf[i][j].text)

PlainBlock(b) ==
    IF b.kind = "p" THEN PlainFrame(<<b.runs>>)
    ELSE \A r \in 1..Len(b.rows) : \A c \in 1..Len(b.rows[r]) : PlainFrame(b.rows[r][c])

RECURSIVE PlainShape(_)
PlainShape(sh) ==
    /\ PlainFrame(sh.tf)
    /\ \A r \in 1..Len(sh.rows) : \A c \in 1..Len(sh.rows[r]) : PlainFrame(sh.rows[r][c])
    /\ \A i \in 1..Len(sh.shapes) : PlainShape(sh.shapes[i])

\* the template holds no placeholder of any kind
ZeroPlaceholders ==
    IF op \in DocxOps THEN \A i \in 1..Len(doc0) : PlainBlock(doc0[i])
    ELSE \A i \in 1..Len(doc0) : PlainShape(doc0[i])

\* C2: filling a template that holds zero placeholders, with any binding context
\* and the default parameters, returns a document identical to the template
\* (same blocks, same table rows, same run texts, same run formatting): the three
\* docx operations do not fail on it, and the document each of the four
\* operations returns is the template.
C2_RoundTrip ==
    /\ (op \in DocxOps /\ ZeroPlaceholders) => pc # "raised"
    /\ (op \in DocxOps /\ ZeroPlaceholders /\ pc = "done") => doc = doc0
    /\ (op = "render_laudo" /\ ZeroPlaceholders /\ args.force_font_family = "Nunito" /\ pc = "done")
          => doc = doc0

\* the text t with every key of ctx replaced by its value in one pass over t
FillOnce(t, ctx) ==
    Join([i \in 1..Len(t) |->
            IF \E k \in 1..Len(ctx) : ctx[k].key = <<t[i]>>
            THEN ctx[CHOOSE k \in 1..Len(ctx) : ctx[k].key = <<t[i]>>].val
            ELSE <<t[i]>>])

\* a table with the keys of every run replaced by the values of one record
FilledTable(tbl, ctx) ==
    MapTableParas(tbl, LAMBDA p : [j \in 1..Len(p) |-> [p[j] EXCEPT !.text = FillOnce(p[j].text, ctx)]])

\* the tables of a body, in order
TablesOf(body) == SelectSeq(body, LAMBDA b : b.kind = "tbl")

\* the position of a model table that stands right before a paragraph holding ph
ModelBefore(body, ph) ==
    {i \in 1..(Len(body) - 1) :
        body[i].kind = "tbl" /\ body[i + 1].kind = "p" /\ Contains(ParaText(body[i + 1].runs), ph)}

NoParaHolds(body, ph) ==
    \A i \in 1..Len(body) : body[i].kind = "p" => ~Contains(ParaText(body[i].runs), ph)

\* the blocks between the i-th block of before and the blocks after its anchor
Generated(before, after, i) == SubSeq(after, i, Len(after) - (Len(before) - (i + 1)))

\* one table per record stands where the model and its anchor stood, in record
\* order, table k being the model filled with record k; the blocks around are as
\* they were, and neither the model nor the anchor is left
TablePerRecord(before, after, ph, ctxs) ==
    \A i \in ModelBefore(before, ph) :
        /\ Len(after) >= Len(before) - 2
        /\ SubSeq(after, 1, i - 1) = SubSeq(before, 1, i - 1)
        /\ SubSeq(after, Len(after) - (Len(before) - (i + 1)) + 1, Len(after))
              = SubSeq(before, i + 2, Len(before))
        /\ TablesOf(Generated(before, after, i)) = [k \in 1..Len(ctxs) |-> FilledTable(before[i], ctxs[k])]
        /\ \A j \in 1..Len(Generated(before, after, i)) :
              Generated(before, after, i)[j].kind = "p" => ParaText(Generated(before, after, i)[j].runs) = <<>>
        /\ NoParaHolds(after, ph)

\* the same, whatever the clones are filled with
TablePerRecordShape(before, after, ph, n) ==
    \A i \in ModelBefore(before, ph) :
        /\ Len(after) >= Len(before) - 2
        /\ SubSeq(after, 1, i - 1) = SubSeq(before, 1, i - 1)
        /\ SubSeq(after, Len(after) - (Len(before) - (i + 1)) + 1, Len(after))
              = SubSeq(before, i + 2, Len(before))
        /\ Len(TablesOf(Generated(before, after, i))) = n
        /\ \A j \in 1..Len(Generated(before, after, i)) :
              Generated(before, after, i)[j].kind = "p" => ParaText(Generated(before, after, i)[j].runs) = <<>>
        /\ NoParaHolds(after, ph)

DeclVisitantesStep == op = "preencher_declaracao_visita" /\ pc = "data" /\ pc' # pc

ContratantesStep == op = "preencher_contrato" /\ pc = "endereco" /\ pc' # pc

ContratadosStep == op = "preencher_contrato" /\ pc = "contratantes" /\ pc' # pc

ComissaoStep == op = "preencher_contrato" /\ pc = "valor_comissao" /\ pc' # pc

PagamentosStep == op = "preencher_promessa" /\ pc = "tables" /\ pc' # pc

\* C3: table-per-record repetition. When the anchor paragraph is immediately
\* preceded by a model table, the repetition leaves exactly one cloned table per
\* record at the anchor's position, in record order, clone i filled with record
\* i's values, and neither the model table nor the anchor paragraph remains.
C3_TablePerRecord ==
    [][ /\ DeclVisitantesStep =>
             TablePerRecord(doc, doc', K("visitante_teble"), Field(args.visitantes, VisitanteCtx))
        /\ ContratantesStep =>
             TablePerRecord(doc, doc', K("contratante_table"), Field(args.contratantes, ContratanteCtx))
        /\ ContratadosStep =>
             TablePerRecord(doc, doc', K("contratado_table"), Field(args.corretores, CorretorCtx))
      ]_vars

\* C3 without the cell contents: the number of clones, their place and the
\* removal of the model and of the anchor.
C3_ClonesInPlace ==
    [][ /\ DeclVisitantesStep =>
             TablePerRecordShape(doc, doc', K("visitante_teble"), Len(args.visitantes))
        /\ ContratantesStep =>
             TablePerRecordShape(doc, doc', K("contratante_table"), Len(args.contratantes))
        /\ ContratadosStep =>
             TablePerRecordShape(doc, doc', K("contratado_table"), Len(args.corretores))
      ]_vars

\* the values a payment row is filled with, juros absent or null giving "0%"
PagamentoCtx(pg) ==
    << [key |-> <<"tipo">>, val |-> pg.tipo],
       [key |-> <<"vencimento">>, val |-> pg.vencimento],
       [key |-> <<"valor">>, val |-> FmtReais(pg.valor)],
       [key |-> <<"forma">>, val |-> pg.forma_pagamento],
       [key |-> <<"juros">>, val |-> IF pg.juros.t = "str" THEN pg.juros.s ELSE <<"0%">>] >>

\* the values a commission row is filled with
ComissaoCtx(c, comissao) ==
    << [key |-> <<"name_corretor">>, val |-> c.nome],
       [key |-> <<"cnpj_number_comissao">>, val |-> c.cnpj],
       [key |-> <<"corretagem_percentual">>, val |-> IntDigits(c.participacao) \o <<"%">>],
       [key |-> <<"valor_corretagem">>, val |-> FmtReais((comissao * c.participacao) \div 100)] >>

RowTexts(row) == [c \in 1..Len(row) |-> CellText(row[c])]

\* the rows of before without the model row, then one row per record, in record
\* order, with the texts of the model row's cells filled with the record
RowPerRecord(before, after, ctxs) ==
    /\ after.kind = "tbl"
    /\ Len(after.rows) = Len(before.rows) - 1 + Len(ctxs)
    /\ \A r \in 1..(Len(before.rows) - 1) :
          after.rows[r] = before.rows[IF r = 1 THEN 1 ELSE r + 1]
    /\ \A k \in 1..Len(ctxs) :
          RowTexts(after.rows[Len(before.rows) - 1 + k])
            = [c \in 1..Len(before.rows[2]) |-> FillOnce(CellText(before.rows[2][c]), ctxs[k])]

\* C4: row-per-record repetition. For N records the target table (the first
\* table of the promessa, the table before {comissao_table} in the contrato)
\* gains exactly N rows after the rows it has, in record order, row i holding the
\* model row's cell texts with the keys replaced by record i's values, and the
\* model row (row index 1) is gone.
C4_RowPerRecord ==
    [][ /\ (PagamentosStep /\ FirstTable(doc) > 0 /\ Len(doc[FirstTable(doc)].rows) >= 2) =>
             /\ pc' # "raised"
             /\ RowPerRecord(doc[FirstTable(doc)], doc'[FirstTable(doc)],
                             Field(args.pagamentos, PagamentoCtx))
        /\ (ComissaoStep /\ ModelBefore(doc, K("comissao_table")) # {}) =>
             /\ pc' # "raised"
             /\ \A i \in ModelBefore(doc, K("comissao_table")) :
                   RowPerRecord(doc[i], doc'[i],
                                Field(args.corretores, LAMBDA c : ComissaoCtx(c, valor_comissao(args))))
      ]_vars

\* the call was given an empty record list for a block its template holds
EmptyRecordList ==
    \/ /\ op = "preencher_contrato"
       /\ \/ args.contratantes = <<>> /\ ModelBefore(doc0, K("contratante_table")) # {}
          \/ args.corretores = <<>> /\ ModelBefore(doc0, K("contratado_table")) # {}
    \/ /\ op = "preencher_promessa"
       /\ args.pagamentos = <<>> /\ FirstTable(doc0) \in ModelBefore(doc0, K("pagamento_table"))
    \/ /\ op = "preencher_declaracao_visita"
       /\ args.visitantes = <<>> /\ ModelBefore(doc0, K("visitante_teble")) # {}
       /\ args.avaliacao_nps.t # "none"

\* C5: repetition with an empty record list completes normally, removes the model
\* block and the anchor paragraph and generates nothing, for the blocks of
\* contratantes, corretores, pagamentos (the payment table being the first table
\* of the document) and visitantes, and the generation call as a whole still
\* returns a document.
C5_EmptyRecordList ==
    /\ [](EmptyRecordList => pc # "raised")
    /\ [][ /\ (DeclVisitantesStep /\ args.visitantes = <<>>) =>
                TablePerRecordShape(doc, doc', K("visitante_teble"), 0)
           /\ (ContratantesStep /\ args.contratantes = <<>>) =>
                TablePerRecordShape(doc, doc', K("contratante_table"), 0)
           /\ (ContratadosStep /\ args.corretores = <<>>) =>
                TablePerRecordShape(doc, doc', K("contratado_table"), 0)
           /\ (PagamentosStep /\ args.pagamentos = <<>>
                 /\ FirstTable(doc) \in ModelBefore(doc, K("pagamento_table"))) =>
                /\ pc' # "raised"
                /\ NoParaHolds(doc', K("pagamento_table"))
                /\ \A i \in ModelBefore(doc, K("pagamento_table")) : RowPerRecord(doc[i], doc'[i], <<>>)
         ]_vars

\* C6: when the anchor of a structural block is absent from the document, the
\* repetition is a silent no-op: nothing is added, the model is not removed,
\* nothing else changes and no error is raised, for {pagamento_table},
\* {comissao_table}, {contratante_table}, {contratado_table}, {visitante_teble}.
C6_AbsentAnchorNoOp ==
    [][ /\ (PagamentosStep /\ NoParaHolds(doc, K("pagamento_table"))) => (doc' = doc /\ pc' # "raised")
        /\ (ComissaoStep /\ NoParaHolds(doc, K("comissao_table"))) => (doc' = doc /\ pc' # "raised")
        /\ (ContratantesStep /\ NoParaHolds(doc, K("contratante_table"))) => (doc' = doc /\ pc' # "raised")
        /\ (ContratadosStep /\ NoParaHolds(doc, K("contratado_table"))) => (doc' = doc /\ pc' # "raised")
        /\ (DeclVisitantesStep /\ NoParaHolds(doc, K("visitante_teble"))) => (doc' = doc /\ pc' # "raised")
      ]_vars

\* C6 for the blocks of the contrato and of the declaracao alone.
C6_AbsentAnchorNoOpTables ==
    [][ /\ (ComissaoStep /\ NoParaHolds(doc, K("comissao_table"))) => (doc' = doc /\ pc' # "raised")
        /\ (ContratantesStep /\ NoParaHolds(doc, K("contratante_table"))) => (doc' = doc /\ pc' # "raised")
        /\ (ContratadosStep /\ NoParaHolds(doc, K("contratado_table"))) => (doc' = doc /\ pc' # "raised")
        /\ (DeclVisitantesStep /\ NoParaHolds(doc, K("visitante_teble"))) => (doc' = doc /\ pc' # "raised")
      ]_vars

\* the signature steps: the operation, where it stands, the anchor, the parties
\* and the label of their identifier
SigSteps ==
    { [op |-> "preencher_declaracao_visita", pc |-> "imob", ph |-> K("assinatura_visitante"),
       parties |-> args.visitantes, label |-> "CPF: ", cnpj |-> FALSE],
      [op |-> "preencher_contrato", pc |-> "data", ph |-> K("assinatura_prop"),
       parties |-> args.contratantes, label |-> "CPF: ", cnpj |-> FALSE],
      [op |-> "preencher_contrato", pc |-> "assinatura_prop", ph |-> K("assinatura_corretor"),
       parties |-> args.corretores, label |-> "CNPJ: ", cnpj |-> TRUE],
      [op |-> "preencher_promessa", pc |-> "pagamentos", ph |-> K("assinatura_vendedor"),
       parties |-> args.vendedores, label |-> "CPF: ", cnpj |-> FALSE],
      [op |-> "preencher_promessa", pc |-> "assinatura_vendedor", ph |-> K("assinatura_comprador"),
       parties |-> args.compradores, label |-> "CPF: ", cnpj |-> FALSE] }

\* the texts of the paragraphs of the cell of a party: the line, the name, the identifier
PartyCellTexts(q, s) ==
    << <<"__________________________________">>,
       <<"Nome: ">> \o q.nome,
       <<s.label>> \o (IF s.cnpj THEN q.cnpj ELSE q.cpf) >>

CellParaTexts(cell) == [i \in 1..Len(cell) |-> ParaText(cell[i])]

\* t is the signature table of the parties of step s
PairedTable(t, s) ==
    LET n == Len(s.parties)
    IN  /\ t.kind = "tbl"
        /\ Len(t.rows) = (n + 1) \div 2
        /\ \A r \in 1..Len(t.rows) : Len(t.rows[r]) = 2
        /\ \A k \in 0..(n - 1) :
              CellParaTexts(t.rows[(k \div 2) + 1][(k % 2) + 1]) = PartyCellTexts(s.parties[k + 1], s)
        /\ (n % 2 = 1 => CellText(t.rows[Len(t.rows)][2]) = <<>>)

\* C7: signature pairing. For a party list of length N the table generated at a
\* signature anchor has ceil(N/2) rows of 2 cells, party k (0-based) is in row
\* k div 2, column k mod 2, with the signature line and its name and identifier
\* lines, and for odd N the second cell of the last row is empty.
C7_SignaturePairing ==
    [][ \A s \in SigSteps :
          (op = s.op /\ pc = s.pc /\ pc' # pc /\ FirstParaWith(doc, s.ph) > 0) =>
              /\ Len(doc') = Len(doc) + 1
              /\ PairedTable(doc'[FirstParaWith(doc, s.ph) + 1], s)
      ]_vars

\* three brokers have signed the contrato: the table after the emptied anchor has
\* two rows, the third broker is in the first cell of the second row and the cell
\* next to it is empty
C7_Witness ==
    /\ op = "preencher_contrato"
    /\ pc = "assinatura_corretor"
    /\ Len(args.corretores) = 3
    /\ \E i \in 2..Len(doc) :
          /\ doc[i].kind = "tbl"
          /\ doc[i - 1].kind = "p" /\ ParaText(doc[i - 1].runs) = <<>>
          /\ Len(doc[i].rows) = 2
          /\ CellParaTexts(doc[i].rows[2][1])
                = PartyCellTexts(args.corretores[3],
                                 [label |-> "CNPJ: ", cnpj |-> TRUE])
          /\ doc[i].rows[2][2] = EmptyCell

\* the parties a witness block needs
MinTestemunhas == 2

HoldsText(body, ph) ==
    \E i \in 1..Len(body) : body[i].kind = "p" /\ Contains(ParaText(body[i].runs), ph)

\* the call was given fewer parties than a block of its template needs: less than
\* two witnesses for the witness block, nobody for a signature anchor
TooFewParties ==
    \/ /\ op \in {"preencher_contrato", "preencher_promessa"}
       /\ Len(args.testemunhas) < MinTestemunhas
       /\ HoldsText(doc0, <<"testemunha_1">>)
    \/ \E s \in SigSteps : op = s.op /\ s.parties = <<>> /\ HoldsText(doc0, s.ph)

\* C8: a party list with fewer parties than the signature or witness block needs
\* is rejected with an error: no document is produced from it.
C8_TooFewPartiesRejected ==
    TooFewParties => pc # "done"

(***************************************************************************)
(* Claims about render_laudo (checked under Spec)                          *)
(***************************************************************************)
\* the runs of a shape in document order, each with whether the font loop of
\* lines 634-645 reaches it (a text box of the slide or right inside a group
\* of the slide)
RECURSIVE ShapeRuns(_, _)
ShapeRuns(shape, depth) ==
    IF shape.kind = "box"
    THEN LET rs == Join(shape.tf)
         IN  [k \in 1..Len(rs) |-> [run |-> rs[k], reach |-> depth <= 1]]
    ELSE IF shape.kind = "table"
    THEN LET rs == Join([r \in 1..Len(shape.rows) |->
                        Join([c \in 1..Len(shape.rows[r]) |-> Join(shape.rows[r][c])])])
         IN  [k \in 1..Len(rs) |-> [run |-> rs[k], reach |-> FALSE]]
    ELSE IF shape.kind = "group"
    THEN Join([i \in 1..Len(shape.shapes) |-> ShapeRuns(shape.shapes[i], depth + 1)])
    ELSE <<>>

\* the presentation has been saved
LaudoSaved == op = "render_laudo" /\ pc \in {"saved", "done"}

\* run k of shape i got another, non-empty text: a scalar substitution
Substituted(i, k) ==
    /\ ShapeRuns(doc[i], 0)[k].run.text # ShapeRuns(doc0[i], 0)[k].run.text
    /\ ShapeRuns(doc[i], 0)[k].run.text # <<>>

RECURSIVE ShapeFrames(_)
ShapeFrames(shape) ==
    IF shape.kind = "box" THEN << [tf |-> shape.tf, cell |-> FALSE] >>
    ELSE IF shape.kind = "table"
    THEN Join([r \in 1..Len(shape.rows) |->
                [c \in 1..Len(shape.rows[r]) |-> [tf |-> shape.rows[r][c], cell |-> TRUE]]])
    ELSE IF shape.kind = "group"
    THEN Join([i \in 1..Len(shape.shapes) |-> ShapeFrames(shape.shapes[i])])
    ELSE <<>>

\* the image key a frame consists of: its whole trimmed text is one {{key}}
\* token and key is an image key (<<>> otherwise)
SlotKey(tf) ==
    LET m == RexFullMatch(Strip(FrameText(tf)))
    IN  IF m.ok /\ m.key \in ImgKeys(args) THEN m.key ELSE <<>>

\* the pictures have been placed
ImagesPlaced == op = "render_laudo" /\ pc \in {"images", "font", "saved", "done"}

HasPicture(key) == \E j \in 1..Len(doc) : doc[j].kind = "pic" /\ doc[j].key = key

\* frame k of shape i was handled as an image slot: emptied, its picture placed
HandledAsSlot(i, k) ==
    /\ FrameText(ShapeFrames(doc[i])[k].tf) = <<>>
    /\ HasPicture(SlotKey(ShapeFrames(doc0[i])[k].tf))

\* C17: a text box or a table cell whose entire trimmed text is exactly one
\* {{key}} token with an image key is handled as an image slot: once the
\* images are placed its text is cleared and its picture is on the slide.
C17_ImageSlots ==
    ImagesPlaced =>
        \A i \in 1..Len(doc0) : \A k \in 1..Len(ShapeFrames(doc0[i])) :
            SlotKey(ShapeFrames(doc0[i])[k].tf) # <<>> => HandledAsSlot(i, k)

\* C17 for text boxes alone, at any depth of grouping
C17_ImageSlotsBoxes ==
    ImagesPlaced =>
        \A i \in 1..Len(doc0) : \A k \in 1..Len(ShapeFrames(doc0[i])) :
            (SlotKey(ShapeFrames(doc0[i])[k].tf) # <<>> /\ ~ShapeFrames(doc0[i])[k].cell)
                => HandledAsSlot(i, k)

\* the walk has substituted the texts
Walked == op = "render_laudo" /\ pc \in {"walk", "images", "font", "saved", "done"}

\* the run holds a {{key}} token whose key has a text value
HoldsBoundToken(t) ==
    \E j \in 1..Len(t) :
        RexMatch(t, j).ok /\ get_value(args.VARS, args.ALIASES, RexMatch(t, j).key) > 0

\* C18: a {{key}} token that shares its text box with other text is handled
\* as a text token: it is substituted when its key has a text value, also when
\* the key is an image key and the token fills a run of its own, and the box
\* is never emptied as an image slot.
C18_MixedBoxIsText ==
    Walked =>
        \A i \in 1..Len(doc0) : \A k \in 1..Len(ShapeFrames(doc0[i])) :
            LET f0 == ShapeFrames(doc0[i])[k]
                f  == ShapeFrames(doc[i])[k]
            IN  (~f0.cell /\ FrameText(f0.tf) # <<>> /\ SlotKey(f0.tf) = <<>>) =>
                    /\ FrameText(f.tf) # <<>>
                    /\ \A p \in 1..Len(f.tf) : \A r \in 1..Len(f.tf[p]) :
                          ~HoldsBoundToken(f.tf[p][r].text)

\* C18 for tokens whose key is not an image key
C18_MixedBoxIsTextNoImageKey ==
    Walked =>
        \A i \in 1..Len(doc0) : \A k \in 1..Len(ShapeFrames(doc0[i])) :
            LET f0 == ShapeFrames(doc0[i])[k]
                f  == ShapeFrames(doc[i])[k]
            IN  (~f0.cell /\ FrameText(f0.tf) # <<>> /\ SlotKey(f0.tf) = <<>>) =>
                    /\ FrameText(f.tf) # <<>>
                    /\ \A p \in 1..Len(f.tf) : \A r \in 1..Len(f.tf[p]) :
                          HoldsBoundToken(f.tf[p][r].text)
                              => SlotKey(<< <<f.tf[p][r]>> >>) # <<>>

(***************************************************************************)
(* The order of the mutation steps (checked under Spec)                    *)
(***************************************************************************)
\* the block structure of a body: the kinds of its blocks and the rows of its tables
DocxShape(body) == [i \in 1..Len(body) |-> [kind |-> body[i].kind, rows |-> Len(body[i].rows)]]

\* the step repeats or removes structural blocks
StructuralStep == op \in DocxOps /\ DocxShape(doc') # DocxShape(doc)

\* the step substitutes text and leaves the block structure alone
SubstitutionStep == op \in DocxOps /\ doc' # doc /\ DocxShape(doc') = DocxShape(doc)

\* anchors of the structural blocks: tables to clone or to extend, signature tables
TableAnchors ==
    {K("visitante_teble"), K("contratante_table"), K("contratado_table"),
     K("comissao_table"), K("pagamento_table")}

SigAnchors ==
    {K("assinatura_visitante"), K("assinatura_prop"), K("assinatura_corretor"),
     K("assinatura_vendedor"), K("assinatura_comprador")}

\* a structural repetition is still to be done on the body
StructuralPending(body) ==
    \/ \E ph \in TableAnchors : ModelBefore(body, ph) # {}
    \/ \E ph \in SigAnchors : HoldsText(body, ph)

PicCount(shapes) == Cardinality({i \in 1..Len(shapes) : shapes[i].kind = "pic"})

\* the step writes the document out
SerializeStep ==
    \/ op \in DocxOps /\ pc # "done" /\ pc' = "done"
    \/ op = "render_laudo" /\ pc # "saved" /\ pc' = "saved"

\* the text frame of the shape at a path
RECURSIVE FrameAt(_, _)
FrameAt(shapes, path) ==
    IF Len(path) = 1 THEN shapes[Head(path)].tf
    ELSE FrameAt(shapes[Head(path)].shapes, Tail(path))

\* every recorded image slot has been emptied
SlotsHandled ==
    \A k \in 1..Len(loc.to_place) : FrameText(FrameAt(doc, loc.to_place[k].path)) = <<>>

\* between two presentations no run got a new text; runs may have been emptied
TextsOnlyCleared(before, after) ==
    \A i \in 1..Len(before) : \A k \in 1..Len(ShapeRuns(before[i], 0)) :
        ShapeRuns(after[i], 0)[k].run.text \in {ShapeRuns(before[i], 0)[k].run.text, <<>>}

\* C20 as stated: the mutation steps are strictly load, repeat structural
\* blocks, substitute scalars and composites, place images, serialize: no
\* substitution is applied while a structural repetition is still to be done,
\* no image is placed before all text substitution is done, and the document
\* is serialized once, last.
C20_StrictPhases ==
    [][ /\ SubstitutionStep => ~StructuralPending(doc')
        /\ (op = "render_laudo" /\ PicCount(doc') # PicCount(doc)) => pc = "walk"
        /\ (op = "render_laudo" /\ pc # "bindings") => TextsOnlyCleared(doc, doc')
        /\ SerializeStep => doc' = doc
        /\ pc \in {"saved", "done"} => doc' = doc ]_vars

\* C20 amended: every operation starts from the loaded template and
\* serializes once, as its last mutation step, after which the document does
\* not change; render_laudo substitutes all text before it places an image
\* and has emptied every image slot when it saves; preencher_promessa changes
\* the block structure (payment rows, signature tables) only after its scalar
\* and composite passes over paragraphs and tables.  Substitution and
\* structural repetition are interleaved in the docx operations.
C20_LoadFirstSaveLast ==
    [][ /\ pc = "start" => doc = doc0
        /\ (op = "render_laudo" /\ PicCount(doc') # PicCount(doc)) => pc = "walk"
        /\ (op = "render_laudo" /\ pc # "bindings") => TextsOnlyCleared(doc, doc')
        /\ (op = "render_laudo" /\ SerializeStep) => SlotsHandled
        /\ (op = "preencher_promessa" /\ StructuralStep)
              => pc \in {"tables", "pagamentos", "assinatura_vendedor"}
        /\ SerializeStep => doc' = doc
        /\ pc \in {"saved", "done"} => doc' = doc ]_vars

\* a presentation was saved with a substituted text and a placed picture
C20_Witness ==
    /\ op = "render_laudo" /\ pc = "done"
    /\ Len(loc.to_place) > 0
    /\ PicCount(doc) > 0
    /\ \E i \in 1..Len(doc0) : \E k \in 1..Len(ShapeRuns(doc0[i], 0)) : Substituted(i, k)


(***************************************************************************)
(* Inserted data and optional fields (checked under Spec)                  *)
(***************************************************************************)
\* the clones generated at the anchor are the model filled once with each record
ClonesFilled(before, after, ph, ctxs) ==
    \A i \in ModelBefore(before, ph) :
        TablesOf(Generated(before, after, i)) = [k \in 1..Len(ctxs) |-> FilledTable(before[i], ctxs[k])]

\* the rows added to the table hold the model row's texts filled once with each record
RowsFilled(before, after, ctxs) ==
    /\ Len(after.rows) = Len(before.rows) - 1 + Len(ctxs)
    /\ \A k \in 1..Len(ctxs) :
          RowTexts(after.rows[Len(before.rows) - 1 + k])
            = [c \in 1..Len(before.rows[2]) |-> FillOnce(CellText(before.rows[2][c]), ctxs[k])]

\* the tables the contrato generated for its contratantes and corretores
ContratoClones ==
    { FilledTable(ContratanteModel, ContratanteCtx(args.contratantes[k])) : k \in 1..Len(args.contratantes) }
      \cup { FilledTable(ContratadoModel, CorretorCtx(args.corretores[k])) : k \in 1..Len(args.corretores) }

ContratoPrimeirosStep == op = "preencher_contrato" /\ pc = "contratados" /\ pc' = "primeiros"

\* C28: filling a cloned table or row never rewrites data that was inserted.  The
\* clones of the visitante, contratante and contratado tables and the payment
\* rows hold the model's texts with each key replaced once by the record's value
\* (a value that contains the text of a key is left as it is), and the
\* document-wide first-record substitution of preencher_contrato leaves the
\* filled clones as they are.
C28_InsertedDataKept ==
    [][ /\ DeclVisitantesStep =>
             ClonesFilled(doc, doc', K("visitante_teble"), Field(args.visitantes, VisitanteCtx))
        /\ ContratantesStep =>
             ClonesFilled(doc, doc', K("contratante_table"), Field(args.contratantes, ContratanteCtx))
        /\ ContratadosStep =>
             ClonesFilled(doc, doc', K("contratado_table"), Field(args.corretores, CorretorCtx))
        /\ (PagamentosStep /\ pc' # "raised" /\ FirstTable(doc) > 0) =>
             RowsFilled(doc[FirstTable(doc)], doc'[FirstTable(doc)], Field(args.pagamentos, PagamentoCtx))
        /\ ContratoPrimeirosStep =>
             \A i \in 1..Len(doc) : doc[i] \in ContratoClones => (Len(doc') >= i /\ doc'[i] = doc[i])
      ]_vars

\* C28 for the contrato alone, whose keys are no part of the values of the model
C28_ContratoClonesKept ==
    [][ /\ ContratantesStep =>
             ClonesFilled(doc, doc', K("contratante_table"), Field(args.contratantes, ContratanteCtx))
        /\ ContratadosStep =>
             ClonesFilled(doc, doc', K("contratado_table"), Field(args.corretores, CorretorCtx))
        /\ ContratoPrimeirosStep =>
             \A i \in 1..Len(doc) : doc[i] \in ContratoClones => (Len(doc') >= i /\ doc'[i] = doc[i])
      ]_vars

\* the payment list holds a payment without interest: juros absent or null
SemJuros == { k \in 1..Len(args.pagamentos) : args.pagamentos[k].juros.t \in {"absent", "none"} }

\* the columns of the model row that hold the key juros
JurosCols(tbl) == { c \in 1..Len(tbl.rows[2]) : CellText(tbl.rows[2][c]) = <<"juros">> }

\* C29: a payment with no interest (juros absent or null) is rendered with the
\* default '0%' and the generation completes without error: the payment step
\* does not raise, and the interest cell of the row of such a payment reads 0%.
C29_NoInterestIsZero ==
    [][ (PagamentosStep /\ SemJuros # {} /\ FirstTable(doc) > 0 /\ Len(doc[FirstTable(doc)].rows) >= 2) =>
             /\ pc' # "raised"
             /\ \A k \in SemJuros : \A c \in JurosCols(doc[FirstTable(doc)]) :
                   CellText(doc'[FirstTable(doc)].rows[Len(doc[FirstTable(doc)].rows) - 1 + k][c]) = <<"0%">>
      ]_vars

\* C29 for the payments whose dict has no juros entry at all
C29_AbsentInterestIsZero ==
    [][ (PagamentosStep /\ pc' # "raised" /\ FirstTable(doc) > 0 /\ Len(doc[FirstTable(doc)].rows) >= 2) =>
             \A k \in SemJuros : \A c \in JurosCols(doc[FirstTable(doc)]) :
                   CellText(doc'[FirstTable(doc)].rows[Len(doc[FirstTable(doc)].rows) - 1 + k][c]) = <<"0%">>
      ]_vars

(***************************************************************************)
(* Serving a generation request (app_linux.py, utils/pptx_pdf.py)          *)
(*                                                                         *)
(* doc is the set of files under the temporary directory.  A file is       *)
(* [folder, name], both sequences of atoms; the folder <<>> is the         *)
(* temporary directory itself.  An identifier is one atom, an extension an *)
(* atom that starts with a dot.                                            *)
(***************************************************************************)
\* app_linux.py:71 and laudo_pptx.py: the prefix of a laudo's folder and public names
LAUDO_PREFIX == "laudo_"

\* the values uuid.uuid4() gives a request
Uuid4 == {"u1", "u2"}

\* the strings uuid.UUID() accepts
UuidStrings == Uuid4 \cup {"u3"}

\* out_basename of a laudo request: None, a name that is no UUID, a UUID
NoBasename == ""

OutBasenames == {NoBasename, "relatorio", "u3"}

File(folder, name) == [folder |-> folder, name |-> name]

NoFile == File(<<>>, <<>>)

TmpRoot == <<>>

\* laudo_pptx.py:539  work = <tmp>/laudo_<rid>
WorkDir(rid) == <<LAUDO_PREFIX, rid>>

\* laudo_pptx.py:552 and 562: the chart images of a laudo
ChartFiles(rid) ==
    { File(WorkDir(rid), <<"grafico_trimestres_transparente", ".png">>),
      File(WorkDir(rid), <<"grafico2_transparente", ".png">>) }

\* laudo_pptx.py:651 and 655
PptxFile(rid) == File(WorkDir(rid), <<rid, ".pptx">>)

PdfFile(rid) == File(WorkDir(rid), <<rid, ".pdf">>)

\* pptx_pdf.py:188  a slide image the PNG export leaves in out_dir
PngFile(rid) == File(WorkDir(rid), <<rid, ".png">>)

Exts == {".pptx", ".pdf", ".docx", ".png"}

\* os.path.splitext: the last dotted part of a name that has something before it
SplitExt(name) ==
    IF Len(name) > 1 /\ name[Len(name)] \in Exts
    THEN [stem |-> SubSeq(name, 1, Len(name) - 1), ext |-> name[Len(name)]]
    ELSE [stem |-> name, ext |-> ""]

\* uuid.UUID(stem) does not raise
IsUuid(stem) == Len(stem) = 1 /\ stem[1] \in UuidStrings

Served(fname, f) == [fname |-> fname, code |-> 200, path |-> f, mensagem |-> ""]

NotFound(fname, msg) == [fname |-> fname, code |-> 404, path |-> NoFile, mensagem |-> msg]

NoDown == [fname |-> <<>>, code |-> 0, path |-> NoFile, mensagem |-> ""]

\* app_linux.py:491-495  the identifier of a laudo name must parse as a UUID
LaudoStemOk(stem) == IsUuid(stem)

\* baixar_arquivo(fname), app_linux.py lines 467-517
baixar_arquivo(files, fname) ==
    LET direct == File(TmpRoot, fname)
        se     == SplitExt(Tail(fname))
        cand2  == File(<<LAUDO_PREFIX>> \o se.stem, se.stem \o <<se.ext>>)
        se3    == SplitExt(fname)
        cand3  == File(<<LAUDO_PREFIX>> \o se3.stem, fname)
        fallback == IF se3.ext # "" /\ IsUuid(se3.stem) /\ cand3 \in files
                    THEN Served(fname, cand3)
                    ELSE NotFound(fname, "Arquivo nao encontrado.")
    IN  IF direct \in files THEN Served(fname, direct)
        ELSE IF fname # <<>> /\ fname[1] = LAUDO_PREFIX
        THEN IF se.ext = "" THEN NotFound(fname, "Extensao nao encontrada.")
             ELSE IF ~LaudoStemOk(se.stem) THEN NotFound(fname, "Identificador invalido.")
             ELSE IF cand2 \in files THEN Served(fname, cand2)
             ELSE fallback
        ELSE fallback

\* what one run of LibreOffice does: it exits with a return code after writing
\* its output or not, it never returns, or the program is not found
LoOutcomes ==
    { [kind |-> "exit", rc |-> rc, wrote |-> w] : rc \in {0, 1}, w \in BOOLEAN }
      \cup { [kind |-> "never", rc |-> 0, wrote |-> FALSE],
             [kind |-> "notfound", rc |-> 0, wrote |-> FALSE] }

\* the timeout the callers pass to subprocess.run: none
NoTimeout == "none"

\* subprocess.run(args, timeout=t) as its caller sees it
subprocess_run(o, t) ==
    IF o.kind = "never" THEN (IF t = NoTimeout THEN "blocked" ELSE "TimeoutExpired")
    ELSE IF o.kind = "notfound" THEN "FileNotFoundError"
    ELSE "exit"

\* pptx_pdf.py:83 and app_linux.py:153, 225, 279, 377: subprocess.run without timeout
RunLo(o) == subprocess_run(o, NoTimeout)

DocxEndpoints ==
    { "gerar_pdf_autorizacao", "gerar_pdf_contrato_corretagem",
      "gerar_pdf_declaracao_visita", "gerar_pdf_promessa" }

LaudoEndpoint == "gerar_pdf_laudo"

ConvertCall == "convert_pptx_to_pdf"

NoResp ==
    [status |-> "none", code |-> 0, pdf_name |-> <<>>, doc_name |-> <<>>,
     pdf_url |-> <<>>, doc_url |-> <<>>, ok |-> FALSE]

\* the JSON of a finished generation
Sucesso(pdf_name, doc_name, pdf_url) ==
    [NoResp EXCEPT !.status = "sucesso", !.code = 200, !.pdf_name = pdf_name,
                   !.doc_name = doc_name, !.doc_url = doc_name, !.pdf_url = pdf_url]

\* JSONResponse(status_code=code, content={"status": "erro", "mensagem": ...})
Erro(code) == [NoResp EXCEPT !.status = "erro", !.code = code]

\* an exception no handler catches: the framework answers 500
Unhandled == [NoResp EXCEPT !.status = "unhandled", !.code = 500]

\* gerar_pdf_autorizacao has no try/except, the other endpoints catch Exception
Failure(o) == IF o = "gerar_pdf_autorizacao" THEN Unhandled ELSE Erro(500)

\* the value convert_pptx_to_pdf returns
ConvReturned(ok) == [NoResp EXCEPT !.status = "returned", !.ok = ok]

\* the call left by an exception
ConvRaised == [NoResp EXCEPT !.status = "raised"]

ServeLoc ==
    [rid |-> "", src |-> NoFile, pdf |-> NoFile, tried |-> <<>>, ok |-> FALSE,
     last |-> "", down |-> NoDown]

ServeArgs ==
    { [out_basename |-> b, charts |-> c, tipo_ok |-> t, fill_raises |-> f,
       use_impress_filter |-> i, fallback_png_pdf |-> p] :
        b \in OutBasenames, c \in BOOLEAN, t \in BOOLEAN, f \in BOOLEAN,
        i \in BOOLEAN, p \in BOOLEAN }

\* the docx endpoints up to the saved .docx: app_linux.py lines 114-150, 203-222,
\* 265-276, 356-374
ServeFill ==
    /\ op \in DocxEndpoints /\ pc = "start"
    /\ \E u \in Uuid4 :
         IF op = "gerar_pdf_autorizacao" /\ ~args.tipo_ok
         THEN /\ result' = Erro(400)
              /\ pc' = "responded"
              /\ UNCHANGED <<doc, loc>>
         ELSE IF args.fill_raises
         THEN /\ result' = Failure(op)
              /\ pc' = "responded"
              /\ UNCHANGED <<doc, loc>>
         ELSE /\ doc' = doc \cup {File(TmpRoot, <<u, ".docx">>)}
              /\ loc' = [loc EXCEPT !.rid = u, !.src = File(TmpRoot, <<u, ".docx">>),
                                    !.pdf = File(TmpRoot, <<u, ".pdf">>)]
              /\ pc' = "written"
              /\ result' = result
    /\ UNCHANGED <<op, doc0, args>>

\* subprocess.run([... "libreoffice", "--convert-to", "pdf:writer_pdf_Export", ...],
\* check=True): app_linux.py lines 153-155, 225-227, 279-281, 377-379
ServeLibreOffice ==
    /\ op \in DocxEndpoints /\ pc = "written"
    /\ \E o \in LoOutcomes :
         /\ doc' = IF o.wrote THEN doc \cup {loc.pdf} ELSE doc
         /\ loc' = [loc EXCEPT !.last = o.kind]
         /\ IF RunLo(o) = "blocked"
            THEN pc' = "blocked" /\ result' = result
            ELSE IF RunLo(o) # "exit" \/ o.rc # 0
            THEN pc' = "responded" /\ result' = Failure(op)
            ELSE pc' = "rendered" /\ result' = result
    /\ UNCHANGED <<op, doc0, args>>

\* the success response of a docx endpoint: app_linux.py lines 157-166, 229-238,
\* 283-293, 381-390
ServeRespond ==
    /\ op \in DocxEndpoints /\ pc = "rendered"
    /\ result' = Sucesso(<<loc.rid, ".pdf">>, <<loc.rid, ".docx">>, <<loc.rid, ".pdf">>)
    /\ pc' = "responded"
    /\ UNCHANGED <<op, doc, doc0, args, loc>>

\* render_laudo up to the saved .pptx: laudo_pptx.py lines 536-652
ServeLaudoRender ==
    /\ op = LaudoEndpoint /\ pc = "start"
    /\ \E u \in Uuid4 :
         LET rid == IF args.out_basename # NoBasename THEN args.out_basename ELSE u
         IN  IF args.fill_raises
             THEN /\ result' = Erro(500)
                  /\ pc' = "responded"
                  /\ UNCHANGED <<doc, loc>>
             ELSE /\ doc' = doc \cup (IF args.charts THEN ChartFiles(rid) ELSE {}) \cup {PptxFile(rid)}
                  /\ loc' = [loc EXCEPT !.rid = rid, !.src = PptxFile(rid), !.pdf = PdfFile(rid)]
                  /\ pc' = "convert"
                  /\ result' = result
    /\ UNCHANGED <<op, doc0, args>>

\* the guard that runs the next strategy whatever the earlier one reported
RunNext_Always(ok, enabled) == enabled

\* pptx_pdf.py lines 226 and 228: 'if not ok' and 'if not ok and fallback_png_pdf'
RunNext(ok, enabled) == ~ok /\ enabled

\* a strategy that did not run
ConvSkip(next) ==
    /\ pc' = next
    /\ UNCHANGED <<doc, loc, result>>

\* a strategy whose LibreOffice run did not come back with a return code
ConvBroken(o) ==
    /\ doc' = doc
    /\ loc' = [loc EXCEPT !.last = o.kind]
    /\ IF RunLo(o) = "blocked"
       THEN pc' = "blocked" /\ result' = result
       ELSE IF op = ConvertCall
       THEN pc' = "done" /\ result' = ConvRaised
       ELSE pc' = "responded" /\ result' = Erro(500)

\* _export_pdf_via_impress and _export_pdf_generic, pptx_pdf.py lines 125-165:
\* the strategy reports returncode == 0 and pdf_out.exists()
ConvPdfStrategy(name, next) ==
    \E o \in LoOutcomes :
        IF RunLo(o) # "exit" THEN ConvBroken(o)
        ELSE /\ doc' = IF o.wrote THEN doc \cup {loc.pdf} ELSE doc
             /\ loc' = [loc EXCEPT !.last = o.kind,
                                   !.ok = (o.rc = 0 /\ loc.pdf \in doc'),
                                   !.tried = Append(@, [name |-> name, ok |-> (o.rc = 0 /\ loc.pdf \in doc')])]
             /\ pc' = next
             /\ result' = result

\* convert_pptx_to_pdf, lines 223-225
ConvImpress ==
    /\ op \in {LaudoEndpoint, ConvertCall} /\ pc = "convert"
    /\ IF args.use_impress_filter
       THEN ConvPdfStrategy("impress", "impress_done")
       ELSE ConvSkip("impress_done")
    /\ UNCHANGED <<op, doc0, args>>

\* convert_pptx_to_pdf, lines 226-227
ConvGeneric ==
    /\ op \in {LaudoEndpoint, ConvertCall} /\ pc = "impress_done"
    /\ IF RunNext(loc.ok, TRUE)
       THEN ConvPdfStrategy("generic", "generic_done")
       ELSE ConvSkip("generic_done")
    /\ UNCHANGED <<op, doc0, args>>

\* convert_pptx_to_pdf, lines 228-229, and _export_pngs_then_pdf, lines 168-198:
\* a PDF is assembled when the export returned 0 and left slide images
ConvPng ==
    /\ op \in {LaudoEndpoint, ConvertCall} /\ pc = "generic_done"
    /\ IF RunNext(loc.ok, args.fallback_png_pdf)
       THEN \E o \in LoOutcomes :
              IF RunLo(o) # "exit" THEN ConvBroken(o)
              ELSE LET pngs == IF o.wrote THEN doc \cup {PngFile(loc.rid)} ELSE doc
                       made == o.rc = 0 /\ PngFile(loc.rid) \in pngs
                   IN  /\ doc' = IF made THEN pngs \cup {loc.pdf} ELSE pngs
                       /\ loc' = [loc EXCEPT !.last = o.kind,
                                             !.ok = made,
                                             !.tried = Append(@, [name |-> "png", ok |-> made])]
                       /\ pc' = "png_done"
                       /\ result' = result
       ELSE ConvSkip("png_done")
    /\ UNCHANGED <<op, doc0, args>>

\* convert_pptx_to_pdf, line 230: return ok
ConvReturn ==
    /\ op = ConvertCall /\ pc = "png_done"
    /\ result' = ConvReturned(loc.ok)
    /\ pc' = "done"
    /\ UNCHANGED <<op, doc, doc0, args, loc>>

\* render_laudo lines 656-663 and gerar_pdf_laudo lines 445-459
ServeLaudoRespond ==
    /\ op = LaudoEndpoint /\ pc = "png_done"
    /\ LET has_pdf == loc.ok /\ loc.pdf \in doc
       IN  result' = Sucesso(<<LAUDO_PREFIX, loc.rid, ".pdf">>, <<LAUDO_PREFIX, loc.rid, ".pptx">>,
                             IF has_pdf THEN <<LAUDO_PREFIX, loc.rid, ".pdf">> ELSE <<>>)
    /\ pc' = "responded"
    /\ UNCHANGED <<op, doc, doc0, args, loc>>

\* GET /download/{fname} for a name of the response
ServeDownload ==
    /\ op \in DocxEndpoints \cup {LaudoEndpoint}
    /\ pc = "responded" /\ result.status = "sucesso"
    /\ \E fname \in {result.pdf_name, result.doc_name} :
         loc' = [loc EXCEPT !.down = baixar_arquivo(doc, fname)]
    /\ pc' = "downloaded"
    /\ UNCHANGED <<op, doc, doc0, args, result>>

\* a request of an endpoint, or a call of convert_pptx_to_pdf on a saved .pptx;
\* a folder named by out_basename may hold the PDF of an earlier run
ServeInit ==
    /\ op \in DocxEndpoints \cup {LaudoEndpoint, ConvertCall}
    /\ args \in ServeArgs
    /\ args.tipo_ok \/ op = "gerar_pdf_autorizacao"
    /\ op \in {LaudoEndpoint, ConvertCall} \/ (args.out_basename = NoBasename /\ ~args.charts)
    /\ op = ConvertCall \/ (args.use_impress_filter /\ args.fallback_png_pdf)
    /\ op = ConvertCall => (args.out_basename # NoBasename /\ ~args.fill_raises /\ ~args.charts)
    /\ op = "gerar_pdf_autorizacao" => ~args.fill_raises
    /\ doc0 \in IF op = ConvertCall
                THEN { {PptxFile(args.out_basename)}, {PptxFile(args.out_basename), PdfFile(args.out_basename)} }
                ELSE IF op = LaudoEndpoint /\ args.out_basename # NoBasename
                THEN { {}, {PdfFile(args.out_basename)} }
                ELSE { {} }
    /\ doc = doc0
    /\ pc = IF op = ConvertCall THEN "convert" ELSE "start"
    /\ loc = IF op = ConvertCall
             THEN [ServeLoc EXCEPT !.rid = args.out_basename, !.src = PptxFile(args.out_basename),
                                   !.pdf = PdfFile(args.out_basename)]
             ELSE ServeLoc
    /\ result = NoResp

ServeNext ==
    \/ ServeFill
    \/ ServeLibreOffice
    \/ ServeRespond
    \/ ServeLaudoRender
    \/ ConvImpress
    \/ ConvGeneric
    \/ ConvPng
    \/ ConvReturn
    \/ ServeLaudoRespond
    \/ ServeDownload

SpecServe == ServeInit /\ [][ServeNext]_vars

(***************************************************************************)
(* Claims about serving a request (checked under SpecServe)                *)
(***************************************************************************)
\* the request has been answered
Answered == op \in DocxEndpoints \cup {LaudoEndpoint} /\ pc \in {"responded", "downloaded"}

\* C22: every invocation of the external renderer made during a generation
\* request is bounded by an enforced timeout: when the renderer process never
\* returns, the request is not left waiting for it but has ended with a failure,
\* for the docx endpoints and for render_laudo through convert_pptx_to_pdf.
C22_RendererBounded ==
    (op \in DocxEndpoints \cup {LaudoEndpoint} /\ loc.last = "never") =>
        /\ pc # "blocked"
        /\ Answered
        /\ result.status \in {"erro", "unhandled"}

\* the renderer was run and the request is over without any PDF of its name
NoPdfProduced == Answered /\ loc.last # "" /\ loc.src \in doc /\ loc.pdf \notin doc

\* C23: when the external renderer fails on every path so that no PDF is
\* produced, the generation request ends in a failure outcome reported to the
\* caller and never in a success status, for the laudo endpoint as for the docx
\* endpoints.
C23_NoPdfIsFailure == NoPdfProduced => result.status # "sucesso"

\* the public name of the filled source document of the request
SourceName ==
    IF op = LaudoEndpoint THEN <<LAUDO_PREFIX, loc.rid, ".pptx">> ELSE <<loc.rid, ".docx">>

\* C24: when rendering to PDF fails on every path after the filled source
\* document has been written, the response of the request identifies that source
\* document (.pptx or .docx), for the laudo endpoint and for the contrato,
\* promessa, declaracao and autorizacao endpoints.
C24_SourceStillReturned ==
    NoPdfProduced => (result.doc_name = SourceName /\ result.doc_url = SourceName)

\* C24 for the laudo endpoint when LibreOffice is installed: every strategy ran and failed
C24_LaudoSourceReturned ==
    (NoPdfProduced /\ op = LaudoEndpoint /\ loc.last = "exit") =>
        (result.doc_name = SourceName /\ result.doc_url = SourceName)

\* convert_pptx_to_pdf is about to return, or has returned, loc.ok
ConvFinished ==
    \/ op \in {LaudoEndpoint, ConvertCall} /\ pc = "png_done"
    \/ op = ConvertCall /\ pc = "done" /\ result.status = "returned"

\* C26: convert_pptx_to_pdf returns True if <out_dir>/<stem>.pdf exists when it
\* finishes, whatever the return code and the file presence of each attempt and
\* also when a PDF of that name was already there, and it returns False only when
\* no such file exists.
C26_TrueIffPdfExists == ConvFinished => (loc.ok <=> loc.pdf \in doc)

\* C26 in one direction: True is returned only when the file exists
C26_TrueOnlyIfPdfExists == ConvFinished => (loc.ok => loc.pdf \in doc)

StrategyPos(name) == CASE name = "impress" -> 1 [] name = "generic" -> 2 [] name = "png" -> 3

StrategyEnabled(name) ==
    CASE name = "impress" -> args.use_impress_filter
      [] name = "generic" -> TRUE
      [] name = "png" -> args.fallback_png_pdf

TriedNames == { loc.tried[i].name : i \in 1..Len(loc.tried) }

\* C27: convert_pptx_to_pdf tries its strategies in the fixed order Impress-filter
\* PDF, generic PDF, PNG export assembled into a PDF.  A strategy is started only
\* if it is enabled, every enabled strategy before it has been tried and every
\* strategy tried before it reported failure; once a strategy reports success no
\* further one is run and the result is True; the result is False only after all
\* enabled strategies have been tried and have failed.
C27_StrategyOrder ==
    op \in {LaudoEndpoint, ConvertCall} =>
        /\ \A i \in 1..Len(loc.tried) :
              /\ StrategyEnabled(loc.tried[i].name)
              /\ \A n \in {"impress", "generic", "png"} :
                    (StrategyEnabled(n) /\ StrategyPos(n) < StrategyPos(loc.tried[i].name))
                        => n \in TriedNames
              /\ \A j \in 1..Len(loc.tried) :
                    i < j => /\ StrategyPos(loc.tried[i].name) < StrategyPos(loc.tried[j].name)
                             /\ ~loc.tried[i].ok
        /\ ConvFinished =>
              /\ loc.tried # <<>>
              /\ loc.ok = loc.tried[Len(loc.tried)].ok
              /\ ~loc.ok => /\ \A n \in {"impress", "generic", "png"} : StrategyEnabled(n) => n \in TriedNames
                            /\ \A i \in 1..Len(loc.tried) : ~loc.tried[i].ok

\* the two PDF exports failed and the PNG export gave the PDF; the call returned True
C27_Witness ==
    /\ op = ConvertCall
    /\ pc = "done"
    /\ result = ConvReturned(TRUE)
    /\ loc.tried = << [name |-> "impress", ok |-> FALSE], [name |-> "generic", ok |-> FALSE],
                      [name |-> "png", ok |-> TRUE] >>

\* the names of the response that stand for a file the generation produced
ReturnedNames ==
    {result.doc_name} \cup (IF result.pdf_url # <<>> THEN {result.pdf_name} ELSE {})

\* C30: every file name that a successful laudo generation returns to the caller
\* (laudo_<id>.pptx, and laudo_<id>.pdf when a PDF was produced) is retrievable
\* through the download endpoint, which resolves it to <tmp>/laudo_<id>/<id>.<ext>,
\* for generated UUIDs and for caller-supplied out_basename values.
C30_ReturnedNamesDownload ==
    (op = LaudoEndpoint /\ pc = "downloaded" /\ loc.down.fname \in ReturnedNames) =>
        /\ loc.down.code = 200
        /\ loc.down.path = File(WorkDir(loc.rid), <<loc.rid, loc.down.fname[3]>>)

\* C30 for the identifiers that are UUIDs, generated or supplied
C30_UuidNamesDownload ==
    (op = LaudoEndpoint /\ pc = "downloaded" /\ loc.down.fname \in ReturnedNames
       /\ loc.rid \in UuidStrings) =>
        /\ loc.down.code = 200
        /\ loc.down.path = File(WorkDir(loc.rid), <<loc.rid, loc.down.fname[3]>>)

(***************************************************************************)
(* Two requests served side by side (app_linux.py, app/laudo_pptx.py)      *)
(*                                                                         *)
(* op, args, pc and loc hold one entry per request; loc[i] is the          *)
(* identifier of request i ("" before it has one).  doc is the set of      *)
(* writes made so far, each the file (or the folder, with the name <<>>)   *)
(* and the request that wrote it.                                          *)
(***************************************************************************)
Reqs == {1, 2}

\* out_basename of a laudo request: None, a plain name, the UUID of an earlier laudo
TwoBasenames == {NoBasename, "relatorio", "u1"}

TwoArgs ==
    { [out_basename |-> b, charts |-> c] : b \in TwoBasenames, c \in BOOLEAN }

Write(f, i) == [file |-> f, by |-> i]

\* uuid.uuid4(): a value no request has as its identifier
FreshUuid4 == { u \in Uuid4 : \A j \in Reqs : loc[j] # u }

\* laudo_pptx.py lines 536-540: rid = out_basename or str(uuid.uuid4()); work.mkdir(exist_ok=True)
TwoLaudoDir ==
    \E i \in Reqs :
        /\ op[i] = LaudoEndpoint /\ pc[i] = "start"
        /\ \E u \in FreshUuid4 :
             LET rid == IF args[i].out_basename # NoBasename THEN args[i].out_basename ELSE u
             IN  /\ loc' = [loc EXCEPT ![i] = rid]
                 /\ doc' = doc \cup {Write(File(WorkDir(rid), <<>>), i)}
        /\ pc' = [pc EXCEPT ![i] = "dir"]
        /\ UNCHANGED <<op, doc0, args, result>>

\* laudo_pptx.py lines 543-564: the chart images, under fixed names in the folder
TwoLaudoCharts ==
    \E i \in Reqs :
        /\ op[i] = LaudoEndpoint /\ pc[i] = "dir"
        /\ doc' = IF args[i].charts
                  THEN doc \cup { Write(f, i) : f \in ChartFiles(loc[i]) }
                  ELSE doc
        /\ pc' = [pc EXCEPT ![i] = "charts"]
        /\ UNCHANGED <<op, doc0, args, loc, result>>

\* laudo_pptx.py lines 651-652: prs.save(work / "<rid>.pptx")
TwoLaudoSave ==
    \E i \in Reqs :
        /\ op[i] = LaudoEndpoint /\ pc[i] = "charts"
        /\ doc' = doc \cup {Write(PptxFile(loc[i]), i)}
        /\ pc' = [pc EXCEPT ![i] = "saved"]
        /\ UNCHANGED <<op, doc0, args, loc, result>>

\* laudo_pptx.py lines 655-656: the PDF, when the conversion writes it
TwoLaudoPdf ==
    \E i \in Reqs :
        /\ op[i] = LaudoEndpoint /\ pc[i] = "saved"
        /\ \E wrote \in BOOLEAN :
             doc' = IF wrote THEN doc \cup {Write(PdfFile(loc[i]), i)} ELSE doc
        /\ pc' = [pc EXCEPT ![i] = "done"]
        /\ result' = [result EXCEPT ![i] = "sucesso"]
        /\ UNCHANGED <<op, doc0, args, loc>>

\* the docx endpoints: unique_id = str(uuid.uuid4()); <tmp>/<unique_id>.docx is written
\* (app_linux.py lines 139-150, 216-222, 269-276, 369-374)
TwoDocxSave ==
    \E i \in Reqs :
        /\ op[i] \in DocxEndpoints /\ pc[i] = "start"
        /\ \E u \in FreshUuid4 :
             /\ loc' = [loc EXCEPT ![i] = u]
             /\ doc' = doc \cup {Write(File(TmpRoot, <<u, ".docx">>), i)}
        /\ pc' = [pc EXCEPT ![i] = "saved"]
        /\ UNCHANGED <<op, doc0, args, result>>

\* the docx endpoints: libreoffice writes <tmp>/<unique_id>.pdf or fails
TwoDocxPdf ==
    \E i \in Reqs :
        /\ op[i] \in DocxEndpoints /\ pc[i] = "saved"
        /\ \E wrote \in BOOLEAN :
             /\ doc' = IF wrote THEN doc \cup {Write(File(TmpRoot, <<loc[i], ".pdf">>), i)} ELSE doc
             /\ result' = [result EXCEPT ![i] = IF wrote THEN "sucesso" ELSE "erro"]
        /\ pc' = [pc EXCEPT ![i] = "done"]
        /\ UNCHANGED <<op, doc0, args, loc>>

TwoInit ==
    /\ op \in [Reqs -> {LaudoEndpoint, "gerar_pdf_contrato_corretagem", "gerar_pdf_promessa"}]
    /\ args \in [Reqs -> TwoArgs]
    /\ \A i \in Reqs : op[i] \in DocxEndpoints => args[i] = [out_basename |-> NoBasename, charts |-> FALSE]
    /\ pc = [i \in Reqs |-> "start"]
    /\ loc = [i \in Reqs |-> ""]
    /\ doc = {}
    /\ doc0 = {}
    /\ result = [i \in Reqs |-> "none"]

TwoNext ==
    \/ TwoLaudoDir
    \/ TwoLaudoCharts
    \/ TwoLaudoSave
    \/ TwoLaudoPdf
    \/ TwoDocxSave
    \/ TwoDocxPdf

SpecTwo == TwoInit /\ [][TwoNext]_vars

(***************************************************************************)
(* Claims about two requests (checked under SpecTwo)                       *)
(***************************************************************************)
\* no folder or file is written by both requests
NoSharedWrite == \A w1 \in doc : \A w2 \in doc : w1.file = w2.file => w1.by = w2.by

\* C21: concurrent generation requests are independent: each writes to a working
\* location unique to that request, so no two requests, running concurrently or
\* one after another, ever write the same working directory, chart image file or
\* output document, laudo requests that supply out_basename included.
C21_RequestsIndependent == NoSharedWrite

\* C21 for the requests whose identifier is a generated UUID
C21_GeneratedIdsIndependent ==
    (\A i \in Reqs : op[i] = LaudoEndpoint => args[i].out_basename = NoBasename) => NoSharedWrite

====
